---- MODULE Spec2Model ----
(***************************************************************************)
(* Model of the edge-expr data plane: the time-series cache (Cache[T]),    *)
(* the change detector (Variable.ChangedWithLatestPushValue) and the       *)
(* publish scheduler (Variable.GetPushValues).                             *)
(*                                                                         *)
(* Conventions.  A Go pointer or interface that may be nil is a sequence   *)
(* of length 0 (nil) or 1 (the value pointed to): *time.Time, *float64,    *)
(* *time.Duration, the interface field LatestPush.  Instants and durations *)
(* are integers in one abstract unit.  float64 values are small integers,  *)
(* on which the arithmetic the code performs is exact.                     *)
(***************************************************************************)
EXTENDS Integers, Sequences, FiniteSets, TLC

VARIABLES
    cfg,         \* the Variable's configuration, fixed at construction
    now,         \* the wall clock read by time.Now()
    Points,      \* Cache.Points
    LatestPush,  \* Variable.LatestPush
    op,          \* the last call made on the variable: arguments and result
    mu,          \* Cache.mu, the sync.RWMutex: writer holding it, readers holding it
    writer,      \* the goroutine inside AddPoint: position and locals
    readers      \* the goroutines inside the cache's read methods

\* the goroutines stepping through the cache's methods under its lock
lockVars == <<mu, writer, readers>>

vars == <<cfg, now, Points, LatestPush, op, mu, writer, readers>>

----------------------------------------------------------------------------
(* Bounds of the model *)

\* the clock runs over 0..MaxTime, and so do explicit timestamps
MaxTime == 2

\* tick indices passed to GetPushValues run over -1..MaxTick
MaxTick == 2

----------------------------------------------------------------------------
(* Go helpers *)

Nil == <<>>

Some(x) == <<x>>

Abs(x) == IF x < 0 THEN -x ELSE x

\* Go's integer division truncates toward zero (b # 0)
GoDiv(a, b) ==
    LET q == Abs(a) \div Abs(b)
    IN  IF (a < 0) = (b < 0) THEN q ELSE -q

\* Go's remainder has the sign of the dividend (b # 0)
GoRem(a, b) == a - b * GoDiv(a, b)

----------------------------------------------------------------------------
(* Input domains *)

\* the instantiations of Cache[T]; "none" is a Variable whose Cache is nil
\* (createCache's default case)
CacheTypes == {"float64", "bool", "string", "bytes", "none"}

Values(T) ==
    CASE T = "float64" -> {1, 2}
      [] T = "bool"    -> {FALSE, TRUE}
      [] T = "string"  -> {"a", "b"}
      [] T = "bytes"   -> {<<1>>, <<1, 0>>}
      [] OTHER         -> {}

Timestamps == 0 .. MaxTime

TickIndices == -1 .. MaxTick

GcdTicks == {0, 2, 4}

PublishCycles == {Nil, Some(-4), Some(0), Some(2), Some(4)}

ExpireDurations == {-1, 0, 1}

\* (DiffThreshold, PctThreshold) pairs
Thresholds ==
    {<<Nil, Nil>>, <<Some(0), Nil>>, <<Some(2), Nil>>, <<Nil, Some(60)>>}

----------------------------------------------------------------------------
(* Time-series cache *)

Point(v, t) == [Value |-> v, Timestamp |-> t]

\* cleanExpiredPointsUnsafe skipping the eviction for a negative expiry only
cleanExpiredPointsUnsafe_SkipOnlyNegative(points, expire, t) ==
    IF expire < 0
    THEN points
    ELSE SelectSeq(points,
                   LAMBDA p : p.Timestamp # Nil /\ t - p.Timestamp[1] <= expire)

\* Cache.cleanExpiredPointsUnsafe: no eviction when ExpireDuration <= 0,
\* otherwise keep the points with a timestamp and now - timestamp <= expiry
cleanExpiredPointsUnsafe(points, expire, t) ==
    IF expire <= 0
    THEN points
    ELSE SelectSeq(points,
                   LAMBDA p : p.Timestamp # Nil /\ t - p.Timestamp[1] <= expire)

\* the loop of AddPoint: indices of the points whose timestamp equals ts
SameTimestamp(points, ts) ==
    {k \in 1 .. Len(points) :
        points[k].Timestamp # Nil /\ ts # Nil /\ points[k].Timestamp[1] = ts[1]}

\* the index the loop of AddPoint stops at (the first equal timestamp)
FirstSameTimestamp(points, ts) ==
    CHOOSE k \in SameTimestamp(points, ts) :
        \A j \in SameTimestamp(points, ts) : k <= j

\* InsertPoint without the search for an equal timestamp
InsertPoint_AlwaysAppend(points, value, ts) ==
    Append(points, Point(value, ts))

\* InsertPoint overwriting the newest point instead of the one found
InsertPoint_OverwriteNewest(points, value, ts) ==
    IF SameTimestamp(points, ts) # {}
    THEN [points EXCEPT ![Len(points)].Value = value]
    ELSE Append(points, Point(value, ts))

\* InsertPoint placing a new point before the stored ones
InsertPoint_Front(points, value, ts) ==
    IF SameTimestamp(points, ts) # {}
    THEN [points EXCEPT ![FirstSameTimestamp(points, ts)].Value = value]
    ELSE <<Point(value, ts)>> \o points

\* the slice after AddPoint's insertion step, before eviction
InsertPoint(points, value, ts) ==
    IF SameTimestamp(points, ts) # {}
    THEN [points EXCEPT ![FirstSameTimestamp(points, ts)].Value = value]
    ELSE Append(points, Point(value, ts))

\* AddPointTo returning from the overwrite branch without the eviction
AddPointTo_NoEvictionOnOverwrite(points, expire, value, timestamp, t) ==
    LET ts == IF timestamp = Nil THEN Some(t) ELSE timestamp
    IN  IF SameTimestamp(points, ts) # {}
        THEN InsertPoint(points, value, ts)
        ELSE cleanExpiredPointsUnsafe(InsertPoint(points, value, ts), expire, t)

\* Cache.AddPoint(value, timestamp) at clock reading t: a nil timestamp is
\* replaced by time.Now(); overwrite or append; then evict
AddPointTo(points, expire, value, timestamp, t) ==
    LET ts == IF timestamp = Nil THEN Some(t) ELSE timestamp
    IN  cleanExpiredPointsUnsafe(InsertPoint(points, value, ts), expire, t)

\* Cache.Len
CacheLen(points) == Len(points)

\* Cache.PushValue: nil for an empty cache, else the newest point as a PushValue
PushValue(points) ==
    IF Len(points) = 0
    THEN Nil
    ELSE Some([Value |-> points[Len(points)].Value,
               Timestamp |-> points[Len(points)].Timestamp])

----------------------------------------------------------------------------
(* Change detector *)

HasCache == cfg.type # "none"

\* Cache.Value: the newest value or T's zero value
ZeroValue(T) ==
    CASE T = "float64" -> 0
      [] T = "bool"    -> FALSE
      [] T = "string"  -> ""
      [] OTHER         -> <<>>

CacheValue(points) ==
    IF Len(points) = 0 THEN ZeroValue(cfg.type) ELSE points[Len(points)].Value

\* PctAtLeast with a change from 0 counted as 0 percent
PctAtLeast_ZeroBaselineIsZero(new, last, threshold) ==
    IF last = 0
    THEN 0 >= threshold
    ELSE Abs(new - last) * 100 >= threshold * Abs(last)

\* |percentageChange| >= threshold, where percentageChange is 0 for 0 -> 0,
\* math.MaxFloat64 for 0 -> nonzero, and ((new - last) / last) * 100 otherwise
PctAtLeast(new, last, threshold) ==
    IF last = 0
    THEN (IF new = 0 THEN 0 >= threshold ELSE TRUE)
    ELSE Abs(new - last) * 100 >= threshold * Abs(last)

\* the []byte comparison loop: lengths, then element by element
BytesDiffer(a, b) ==
    IF Len(a) # Len(b)
    THEN TRUE
    ELSE \E k \in 1 .. Len(a) : a[k] # b[k]

\* ChangedWithLatestPushValue reporting no change while the cache is empty
ChangedWithLatestPushValue_EmptyCacheUnchanged ==
    IF ~HasCache THEN FALSE
    ELSE IF Points = <<>> THEN FALSE
    ELSE IF LatestPush = Nil THEN TRUE
    ELSE LET new  == CacheValue(Points)
             last == LatestPush[1].Value
         IN  CASE cfg.type = "float64" ->
                    IF cfg.DiffThreshold # Nil
                    THEN Abs(new - last) >= cfg.DiffThreshold[1]
                    ELSE IF cfg.PctThreshold # Nil
                    THEN PctAtLeast(new, last, cfg.PctThreshold[1])
                    ELSE new # last
               [] cfg.type = "bytes" -> BytesDiffer(new, last)
               [] OTHER -> new # last

\* ChangedWithLatestPushValue with the percentage threshold tested first
ChangedWithLatestPushValue_PctFirst ==
    IF ~HasCache THEN FALSE
    ELSE IF LatestPush = Nil THEN TRUE
    ELSE LET new  == CacheValue(Points)
             last == LatestPush[1].Value
         IN  CASE cfg.type = "float64" ->
                    IF cfg.PctThreshold # Nil
                    THEN PctAtLeast(new, last, cfg.PctThreshold[1])
                    ELSE IF cfg.DiffThreshold # Nil
                    THEN Abs(new - last) >= cfg.DiffThreshold[1]
                    ELSE new # last
               [] cfg.type = "bytes" -> BytesDiffer(new, last)
               [] OTHER -> new # last

\* Variable.ChangedWithLatestPushValue
ChangedWithLatestPushValue ==
    IF ~HasCache THEN FALSE
    ELSE IF LatestPush = Nil THEN TRUE
    ELSE LET new  == CacheValue(Points)
             last == LatestPush[1].Value
         IN  CASE cfg.type = "float64" ->
                    IF cfg.DiffThreshold # Nil
                    THEN Abs(new - last) >= cfg.DiffThreshold[1]
                    ELSE IF cfg.PctThreshold # Nil
                    THEN PctAtLeast(new, last, cfg.PctThreshold[1])
                    ELSE new # last
               [] cfg.type = "bytes" -> BytesDiffer(new, last)
               [] OTHER -> new # last

----------------------------------------------------------------------------
(* Publish scheduler *)

\* EmitCondition with the change-triggered branch taken for negative cycles
\* only (publishCycle < 0 for publishCycle <= 0)
EmitCondition_NegativeOnly(gcd, i) ==
    LET publishCycle == cfg.PublishCycle[1]
        times        == GoDiv(publishCycle, gcd)
        changed      == ChangedWithLatestPushValue
    IN  (publishCycle < 0 /\ changed) \/ (times # 0 /\ GoRem(i, times) = 0)

\* EmitCondition with the cycle branch also requiring a change
EmitCondition_CycleNeedsChange(gcd, i) ==
    LET publishCycle == cfg.PublishCycle[1]
        times        == GoDiv(publishCycle, gcd)
        changed      == ChangedWithLatestPushValue
    IN  (publishCycle <= 0 /\ changed)
        \/ (changed /\ times # 0 /\ GoRem(i, times) = 0)

\* the condition of GetPushValues' outer if, with times = publishCycle / gcd
EmitCondition(gcd, i) ==
    LET publishCycle == cfg.PublishCycle[1]
        times        == GoDiv(publishCycle, gcd)
        changed      == ChangedWithLatestPushValue
    IN  (publishCycle <= 0 /\ changed) \/ (times # 0 /\ GoRem(i, times) = 0)

\* the back-fill push of the *Cache[float64] case: the second-newest point,
\* when the value changed, the cache holds two points, LatestPush is a
\* Point[float64], and both timestamps are present and differ
BackFill ==
    LET n == Len(Points)
    IN  IF /\ ChangedWithLatestPushValue
           /\ n >= 2
           /\ LatestPush # Nil
           /\ LatestPush[1].Timestamp # Nil
           /\ Points[n - 1].Timestamp # Nil
           /\ LatestPush[1].Timestamp[1] # Points[n - 1].Timestamp[1]
        THEN <<[Value |-> Points[n - 1].Value,
                Timestamp |-> Points[n - 1].Timestamp]>>
        ELSE <<>>

\* the type switch of GetPushValues: the pushes of the case taken
CasePushValues ==
    IF PushValue(Points) = Nil
    THEN <<>>
    ELSE IF cfg.type = "float64"
         THEN BackFill \o PushValue(Points)
         ELSE PushValue(Points)

\* Variable.GetPushValues(gcd, i): the returned slice (gcd # 0 whenever the
\* division is reached)
GetPushValuesResult(gcd, i) ==
    IF cfg.PublishCycle = Nil THEN <<>>
    ELSE IF ~HasCache THEN <<>>
    ELSE IF EmitCondition(gcd, i) THEN CasePushValues
    ELSE <<>>

\* GetPushValuesLatestPush with the marker moved only when the value changed
GetPushValuesLatestPush_OnlyOnChange(gcd, i) ==
    IF cfg.PublishCycle = Nil THEN LatestPush
    ELSE IF ~HasCache THEN LatestPush
    ELSE IF /\ EmitCondition(gcd, i)
            /\ PushValue(Points) # Nil
            /\ ChangedWithLatestPushValue
         THEN Some(Points[Len(Points)])
    ELSE LatestPush

\* GetPushValuesLatestPush with the marker reset on a tick that pushes nothing
GetPushValuesLatestPush_ResetWhenSkipped(gcd, i) ==
    IF cfg.PublishCycle = Nil THEN LatestPush
    ELSE IF ~HasCache THEN LatestPush
    ELSE IF EmitCondition(gcd, i) /\ PushValue(Points) # Nil
         THEN Some(Points[Len(Points)])
    ELSE Nil

\* GetPushValuesLatestPush with the marker set to the first push returned (the
\* back-fill point when there is one)
GetPushValuesLatestPush_FirstPush(gcd, i) ==
    IF cfg.PublishCycle = Nil THEN LatestPush
    ELSE IF ~HasCache THEN LatestPush
    ELSE IF EmitCondition(gcd, i) /\ PushValue(Points) # Nil
         THEN IF cfg.type = "float64" /\ BackFill # <<>>
              THEN Some(Points[Len(Points) - 1])
              ELSE Some(Points[Len(Points)])
    ELSE LatestPush

\* Variable.GetPushValues(gcd, i): LatestPush on return; every case assigns
\* the newest point exactly when its PushValue is not nil
GetPushValuesLatestPush(gcd, i) ==
    IF cfg.PublishCycle = Nil THEN LatestPush
    ELSE IF ~HasCache THEN LatestPush
    ELSE IF EmitCondition(gcd, i) /\ PushValue(Points) # Nil
         THEN Some(Points[Len(Points)])
    ELSE LatestPush

\* publishCycle / gcd is reached with gcd = 0: Go panics (integer divide by zero)
DividesByZero(gcd) == cfg.PublishCycle # Nil /\ HasCache /\ gcd = 0

----------------------------------------------------------------------------
(* State machine *)

\* the last call: its name, its arguments (gcd and i of GetPushValues; value
\* and the timestamp AddPoint stored it under), what it returned, whether it
\* panicked, and for AddPoint the branch taken ("overwrite" or "append") and
\* the number of points the eviction removed
OpRecord(name, gcd, i, value, timestamp, ret, panicked, branch, evicted) ==
    [name |-> name, gcd |-> gcd, i |-> i, value |-> value,
     timestamp |-> timestamp, ret |-> ret, panicked |-> panicked,
     branch |-> branch, evicted |-> evicted]

Returned(name, ret) == OpRecord(name, 0, 0, Nil, Nil, ret, FALSE, "", 0)

Config(type, publishCycle, thresholds, expire) ==
    [type |-> type, PublishCycle |-> publishCycle,
     DiffThreshold |-> thresholds[1], PctThreshold |-> thresholds[2],
     ExpireDuration |-> expire]

\* the variables the scheduler is run on: every cache type with every publish
\* cycle; thresholds on the numeric type, where they are read
Configs ==
    {Config(T, pc, <<Nil, Nil>>, e) :
        T \in {"bool", "string", "bytes"}, pc \in PublishCycles, e \in {0, 1}}
    \cup {Config("float64", pc, th, e) :
        pc \in PublishCycles, th \in Thresholds, e \in {0, 1}}
    \cup {Config("none", pc, <<Nil, Nil>>, 1) : pc \in PublishCycles}

\* the caches AddPoint is run on: every T with every kind of expiry
CacheConfigs ==
    {Config(T, Nil, <<Nil, Nil>>, e) :
        T \in CacheTypes \ {"none"}, e \in ExpireDurations}

\* the goroutines calling read methods of one cache
ReaderIds == {1, 2}

\* no goroutine is inside AddPoint
WriterIdle == [pc |-> "idle", value |-> Nil, timestamp |-> Nil, before |-> <<>>]

\* a goroutine outside every read method
ReaderIdle == [pc |-> "idle", name |-> "", observed |-> <<>>]

\* a Variable as UnmarshalJSON/createCache leave it: an empty cache of the
\* resolved type (or none), its lock free, nothing published
InitWith(c) ==
    /\ cfg = c
    /\ now = 0
    /\ Points = <<>>
    /\ LatestPush = Nil
    /\ op = Returned("new", <<>>)
    /\ mu = [writer |-> FALSE, readers |-> 0]
    /\ writer = WriterIdle
    /\ readers = [r \in ReaderIds |-> ReaderIdle]

\* AddPoint with the marker being the stored point itself: an overwrite at
\* the published point's timestamp shows through the marker
AddPoint_MarkerSharesPoint(value, timestamp) ==
    /\ ~op.panicked
    /\ HasCache
    /\ Points' = AddPointTo(Points, cfg.ExpireDuration, value, timestamp, now)
    /\ op' = LET ts == IF timestamp = Nil THEN Some(now) ELSE timestamp
             IN  OpRecord("AddPoint", 0, 0, Some(value), ts, <<>>, FALSE,
                          IF SameTimestamp(Points, ts) # {}
                          THEN "overwrite" ELSE "append",
                          Len(InsertPoint(Points, value, ts)) - Len(Points'))
    /\ LatestPush' =
          LET ts == IF timestamp = Nil THEN Some(now) ELSE timestamp
          IN  IF LatestPush # Nil /\ LatestPush[1].Timestamp = ts
              THEN Some(Point(value, ts))
              ELSE LatestPush
    /\ UNCHANGED <<cfg, now>>
    /\ UNCHANGED lockVars

\* cache.AddPoint(value, timestamp) on the variable's cache
AddPoint(value, timestamp) ==
    /\ ~op.panicked
    /\ HasCache
    /\ Points' = AddPointTo(Points, cfg.ExpireDuration, value, timestamp, now)
    /\ op' = LET ts == IF timestamp = Nil THEN Some(now) ELSE timestamp
             IN  OpRecord("AddPoint", 0, 0, Some(value), ts, <<>>, FALSE,
                          IF SameTimestamp(Points, ts) # {}
                          THEN "overwrite" ELSE "append",
                          Len(InsertPoint(Points, value, ts)) - Len(Points'))
    /\ UNCHANGED <<cfg, now, LatestPush>>
    /\ UNCHANGED lockVars

\* v.GetPushValues(gcd, i), one scheduler tick
GetPushValues(gcd, i) ==
    /\ ~op.panicked
    /\ IF DividesByZero(gcd)
       THEN /\ op' = OpRecord("GetPushValues", gcd, i, Nil, Nil, <<>>, TRUE, "", 0)
            /\ UNCHANGED LatestPush
       ELSE /\ op' = OpRecord("GetPushValues", gcd, i, Nil, Nil,
                              GetPushValuesResult(gcd, i), FALSE, "", 0)
            /\ LatestPush' = GetPushValuesLatestPush(gcd, i)
    /\ UNCHANGED <<cfg, now, Points>>
    /\ UNCHANGED lockVars

\* v.ChangedWithLatestPushValue(), called on its own
ChangedSinceLastPublish ==
    /\ ~op.panicked
    /\ op' = Returned("ChangedWithLatestPushValue", <<ChangedWithLatestPushValue>>)
    /\ UNCHANGED <<cfg, now, Points, LatestPush>>
    /\ UNCHANGED lockVars

\* time passes
Advance ==
    /\ ~op.panicked
    /\ now < MaxTime
    /\ now' = now + 1
    /\ op' = Returned("Advance", <<>>)
    /\ UNCHANGED <<cfg, Points, LatestPush>>
    /\ UNCHANGED lockVars

\* the timestamps a reading arrives with
AnyTimestamp == {Nil} \cup {Some(t) : t \in Timestamps}

\* the poller stamps a reading with the time it was read, or leaves it to AddPoint
ReadTimestamp == {Nil, Some(now)}

Init == \E c \in Configs : InitWith(c)

Next ==
    \/ \E value \in Values(cfg.type), timestamp \in ReadTimestamp :
          AddPoint(value, timestamp)
    \/ \E gcd \in GcdTicks, i \in TickIndices : GetPushValues(gcd, i)
    \/ ChangedSinceLastPublish
    \/ Advance

\* a variable under ingestion and the scheduler
Spec == Init /\ [][Next]_vars

InitCache == \E c \in CacheConfigs : InitWith(c)

NextCache ==
    \/ \E value \in Values(cfg.type), timestamp \in AnyTimestamp :
          AddPoint(value, timestamp)
    \/ Advance

\* one cache under AddPoint calls with arbitrary timestamps
SpecCache == InitCache /\ [][NextCache]_vars

----------------------------------------------------------------------------
(* The cache under its lock: AddPoint and the read methods, statement by
   statement.  Lock() waits until no goroutine holds the mutex; RLock() waits
   while a writer holds it. *)

\* the read methods the readers call
ReadMethods == {"Value", "Len", "Changed", "getPointsInWindow"}

\* TakesRLock with Len reading len(c.Points) without the lock
TakesRLock_AllButLen(name) == name \in {"Value", "Changed", "getPointsInWindow"}

\* the methods that call c.mu.RLock() before they read c.Points
TakesRLock(name) == name \in {"Value", "Len", "Changed", "getPointsInWindow"}

\* AddPoint, lines 626-629: a nil timestamp becomes time.Now(), before Lock()
AddPointBegin(value, timestamp) ==
    /\ writer.pc = "idle"
    /\ writer' = [pc |-> "lock", value |-> Some(value),
                  timestamp |-> IF timestamp = Nil THEN Some(now) ELSE timestamp,
                  before |-> <<>>]
    /\ UNCHANGED <<cfg, now, Points, LatestPush, op, mu, readers>>

\* AddPoint, line 631: c.mu.Lock(); before is the slice the call found
AddPointLock ==
    /\ writer.pc = "lock"
    /\ ~mu.writer
    /\ mu.readers = 0
    /\ mu' = [mu EXCEPT !.writer = TRUE]
    /\ writer' = [writer EXCEPT !.pc = "insert", !.before = Points]
    /\ UNCHANGED <<cfg, now, Points, LatestPush, op, readers>>

\* AddPoint, lines 635-644: overwrite the point with the timestamp, or append
AddPointInsert ==
    /\ writer.pc = "insert"
    /\ Points' = InsertPoint(Points, writer.value[1], writer.timestamp)
    /\ writer' = [writer EXCEPT !.pc = "evict"]
    /\ UNCHANGED <<cfg, now, LatestPush, op, mu, readers>>

\* AddPoint, lines 639 and 645: c.cleanExpiredPointsUnsafe()
AddPointEvict ==
    /\ writer.pc = "evict"
    /\ Points' = cleanExpiredPointsUnsafe(Points, cfg.ExpireDuration, now)
    /\ writer' = [writer EXCEPT !.pc = "unlock"]
    /\ UNCHANGED <<cfg, now, LatestPush, op, mu, readers>>

\* AddPoint, the deferred c.mu.Unlock()
AddPointUnlock ==
    /\ writer.pc = "unlock"
    /\ mu' = [mu EXCEPT !.writer = FALSE]
    /\ writer' = WriterIdle
    /\ UNCHANGED <<cfg, now, Points, LatestPush, op, readers>>

\* a read method is entered: c.mu.RLock()
ReadRLock(r, name) ==
    /\ readers[r].pc = "idle"
    /\ IF TakesRLock(name)
       THEN /\ ~mu.writer
            /\ mu' = [mu EXCEPT !.readers = @ + 1]
       ELSE UNCHANGED mu
    /\ readers' = [readers EXCEPT ![r] = [pc |-> "read", name |-> name,
                                          observed |-> <<>>]]
    /\ UNCHANGED <<cfg, now, Points, LatestPush, op, writer>>

\* the read method reads c.Points
ReadPoints(r) ==
    /\ readers[r].pc = "read"
    /\ readers' = [readers EXCEPT ![r].pc = "unlock", ![r].observed = Points]
    /\ UNCHANGED <<cfg, now, Points, LatestPush, op, mu, writer>>

\* the read method returns: the deferred c.mu.RUnlock()
ReadRUnlock(r) ==
    /\ readers[r].pc = "unlock"
    /\ IF TakesRLock(readers[r].name)
       THEN mu' = [mu EXCEPT !.readers = @ - 1]
       ELSE UNCHANGED mu
    /\ readers' = [readers EXCEPT ![r] = ReaderIdle]
    /\ UNCHANGED <<cfg, now, Points, LatestPush, op, writer>>

\* the caches of the lock model: one T (the lock does not depend on T),
\* without and with eviction
LockConfigs == {Config("float64", Nil, <<Nil, Nil>>, e) : e \in {0, 1}}

InitLock == \E c \in LockConfigs : InitWith(c)

NextLock ==
    \/ \E value \in Values(cfg.type), timestamp \in ReadTimestamp :
          AddPointBegin(value, timestamp)
    \/ AddPointLock
    \/ AddPointInsert
    \/ AddPointEvict
    \/ AddPointUnlock
    \/ \E r \in ReaderIds, name \in ReadMethods : ReadRLock(r, name)
    \/ \E r \in ReaderIds : ReadPoints(r)
    \/ \E r \in ReaderIds : ReadRUnlock(r)
    \/ Advance

\* one writer in AddPoint and the readers in read methods, interleaved
SpecLock == InitLock /\ [][NextLock]_vars

----------------------------------------------------------------------------
(* The numeric variable: WriteValue, Read and the change detector with every
   combination of thresholds.  The values are 0, 1 and 2, on which the
   float64 quotient ((current - previous) / previous) * 100 is an integer. *)

\* the two newest values
Current(points) == points[Len(points)].Value

Previous(points) == points[Len(points) - 1].Value

\* the error values of the cache's methods; NoError is Go's nil error
NoError == ""

\* Cache.Diff: <<difference, error>>
Diff(points) ==
    IF Len(points) < 2 THEN <<0, NoError>>
    ELSE IF cfg.type # "float64" THEN <<0, "value is not a float64 type">>
    ELSE <<Current(points) - Previous(points), NoError>>

\* PctChange taking a change from a previous value of 0 as 0 percent
PctChange_ZeroBaselineIsZero(points) ==
    IF Len(points) < 2 THEN <<0, NoError>>
    ELSE IF cfg.type # "float64" THEN <<0, "value is not a float64 type">>
    ELSE IF Previous(points) = 0 THEN <<0, NoError>>
    ELSE <<GoDiv((Current(points) - Previous(points)) * 100, Previous(points)),
           NoError>>

\* Cache.PctChange: <<percentage change, error>>
PctChange(points) ==
    IF Len(points) < 2 THEN <<0, NoError>>
    ELSE IF cfg.type # "float64" THEN <<0, "value is not a float64 type">>
    ELSE IF Previous(points) = 0
         THEN IF Current(points) = 0
              THEN <<0, NoError>>
              ELSE <<0, "cannot calculate percentage change from zero">>
    ELSE <<GoDiv((Current(points) - Previous(points)) * 100, Previous(points)),
           NoError>>

\* Cache.PctChangeExceeds: <<exceeds, error>>
PctChangeExceeds(points, threshold) ==
    IF PctChange(points)[2] # NoError
    THEN <<FALSE, PctChange(points)[2]>>
    ELSE <<Abs(PctChange(points)[1]) > threshold, NoError>>

\* Cache.DiffExceeds: <<exceeds, error>>
DiffExceeds(points, threshold) ==
    IF Diff(points)[2] # NoError
    THEN <<FALSE, Diff(points)[2]>>
    ELSE <<Abs(Diff(points)[1]) > threshold, NoError>>

\* isValueEqual comparing []byte by length alone
isValueEqual_BytesByLength(a, b) ==
    IF cfg.type = "bytes" THEN Len(a) = Len(b) ELSE a = b

\* isValueEqual: []byte by length and element, every other T by ==
isValueEqual(a, b) ==
    IF cfg.type = "bytes" THEN ~BytesDiffer(a, b) ELSE a = b

\* Cache.Changed
Changed(points) ==
    IF Len(points) < 2
    THEN FALSE
    ELSE ~isValueEqual(Current(points), Previous(points))

\* Cache.Timestamp
CacheTimestamp(points) ==
    IF Len(points) = 0 THEN Nil ELSE points[Len(points)].Timestamp

\* ReadChanged with the second if made an else-if: the absolute threshold,
\* when set, decides alone
ReadChanged_AbsoluteFirst ==
    IF cfg.type = "float64"
    THEN IF cfg.DiffThreshold # Nil
         THEN DiffExceeds(Points, cfg.DiffThreshold[1])[1]
         ELSE IF cfg.PctThreshold # Nil
         THEN PctChangeExceeds(Points, cfg.PctThreshold[1])[1]
         ELSE FALSE
    ELSE Changed(Points)

\* Variable.Read, the changed flag: the numeric case assigns DiffExceeds when
\* DiffThreshold is set, then assigns PctChangeExceeds when PctThreshold is
\* set (errors dropped); the other cases return Cache.Changed
ReadChanged ==
    IF cfg.type = "float64"
    THEN LET afterDiff == IF cfg.DiffThreshold # Nil
                          THEN DiffExceeds(Points, cfg.DiffThreshold[1])[1]
                          ELSE FALSE
         IN  IF cfg.PctThreshold # Nil
             THEN PctChangeExceeds(Points, cfg.PctThreshold[1])[1]
             ELSE afterDiff
    ELSE Changed(Points)

\* Variable.Read: <<value, changed, timestamp>>
ReadResult ==
    IF ~HasCache
    THEN <<Nil, FALSE, Nil>>
    ELSE <<Some(CacheValue(Points)), ReadChanged, CacheTimestamp(Points)>>

\* the dynamically typed values handed to WriteValue
AnyValues ==
    {[kind |-> "int", v |-> 1], [kind |-> "float64", v |-> 2],
     [kind |-> "uint8", v |-> 0], [kind |-> "string", v |-> 7]}

\* ConvertToFloat64: the numeric kinds convert, every other kind is an error (nil)
ConvertToFloat64(value) ==
    IF value.kind \in {"float64", "float32", "int", "int8", "int16", "int32",
                       "int64", "uint", "uint8", "uint16", "uint32", "uint64"}
    THEN Some(value.v)
    ELSE Nil

\* WriteValue, the numeric case: the float64 stored, after scale and offset
WriteValueFloat(value) ==
    LET floatValue == ConvertToFloat64(value)[1]
        scaled     == IF cfg.Scale # Nil THEN floatValue * cfg.Scale[1]
                                         ELSE floatValue
    IN  IF cfg.Offset # Nil THEN scaled + cfg.Offset[1] ELSE scaled

\* v.WriteValue(value, t) on a numeric variable: convert, scale, offset, AddPoint
WriteValue(value, t) ==
    /\ ~op.panicked
    /\ cfg.type = "float64"
    /\ IF ConvertToFloat64(value) = Nil
       THEN /\ op' = Returned("WriteValue", <<"unsupported type">>)
            /\ UNCHANGED Points
       ELSE /\ Points' = AddPointTo(Points, cfg.ExpireDuration,
                                    WriteValueFloat(value), t, now)
            /\ op' = LET ts == IF t = Nil THEN Some(now) ELSE t
                     IN  OpRecord("WriteValue", 0, 0, Some(WriteValueFloat(value)),
                                  ts, <<>>, FALSE,
                                  IF SameTimestamp(Points, ts) # {}
                                  THEN "overwrite" ELSE "append",
                                  Len(InsertPoint(Points, WriteValueFloat(value), ts))
                                     - Len(Points'))
    /\ UNCHANGED <<cfg, now, LatestPush>>
    /\ UNCHANGED lockVars

\* v.Read()
Read ==
    /\ ~op.panicked
    /\ op' = Returned("Read", ReadResult)
    /\ UNCHANGED <<cfg, now, Points, LatestPush>>
    /\ UNCHANGED lockVars

\* a Variable with its optional scale and offset
VariableConfig(type, publishCycle, thresholds, expire, scale, offset) ==
    [type |-> type, PublishCycle |-> publishCycle,
     DiffThreshold |-> thresholds[1], PctThreshold |-> thresholds[2],
     ExpireDuration |-> expire, Scale |-> scale, Offset |-> offset]

\* the float64 values ingested into the numeric variable
DetectorValues == {0, 1, 2}

\* (DiffThreshold, PctThreshold): neither, either, both
DetectorThresholds ==
    {<<Nil, Nil>>, <<Some(0), Nil>>, <<Some(2), Nil>>, <<Nil, Some(0)>>,
     <<Nil, Some(60)>>, <<Some(0), Some(60)>>, <<Some(2), Some(60)>>}

\* numeric variables published on every tick (publish cycle = the tick), so
\* that every stored point can become the published one
DetectorConfigs ==
    {VariableConfig("float64", Some(2), th, 0, Nil, Nil) : th \in DetectorThresholds}
    \cup {VariableConfig("float64", Some(2), <<Nil, Nil>>, 1, Nil, Nil),
          VariableConfig("float64", Some(2), <<Nil, Nil>>, 0, Some(2), Some(-2))}

InitDetector == \E c \in DetectorConfigs : InitWith(c)

NextDetector ==
    \/ \E value \in DetectorValues, timestamp \in ReadTimestamp :
          AddPoint(value, timestamp)
    \/ \E value \in AnyValues, t \in ReadTimestamp : WriteValue(value, t)
    \/ GetPushValues(2, 0)
    \/ ChangedSinceLastPublish
    \/ Read
    \/ Advance

\* a numeric variable under ingestion, reads and the scheduler
SpecDetector == InitDetector /\ [][NextDetector]_vars

----------------------------------------------------------------------------
(* Windowed analytics.  A method returning (x, error) is the pair
   <<x, error>>.  One unit of the clock is one second.  The float64 result of
   MA, StdDev and PctChangeSince is kept as the exact fraction [num, den] of
   the operands of its division; for StdDev the fraction is the variance, of
   which the method returns the square root. *)

\* the window strings passed to the windowed methods
Windows == {"abc", "0s", "1s"}

\* time.ParseDuration on these strings: the duration, or nil for an error
ParseDuration(window) ==
    CASE window = "0s" -> Some(0)
      [] window = "1s" -> Some(1)
      [] window = "2s" -> Some(2)
      [] window = "1m0s" -> Some(60)
      [] OTHER         -> Nil

\* getPointsInWindow dropping every point when the window does not parse
getPointsInWindow_NoFallback(points, window, t) ==
    IF Len(points) = 0 THEN <<>>
    ELSE IF ParseDuration(window) = Nil THEN <<>>
    ELSE SelectSeq(points,
                   LAMBDA p : /\ p.Timestamp # Nil
                              /\ p.Timestamp[1] > t - ParseDuration(window)[1])

\* getPointsInWindow also keeping a point stamped exactly at the cutoff
getPointsInWindow_AtOrAfter(points, window, t) ==
    IF Len(points) = 0 THEN <<>>
    ELSE IF ParseDuration(window) = Nil THEN points
    ELSE SelectSeq(points,
                   LAMBDA p : /\ p.Timestamp # Nil
                              /\ p.Timestamp[1] >= t - ParseDuration(window)[1])

\* Cache.getPointsInWindow at clock reading t: nil for an empty cache, a copy
\* of all points when the window does not parse, else the points with a
\* timestamp after t - duration, in stored order
getPointsInWindow(points, window, t) ==
    IF Len(points) = 0 THEN <<>>
    ELSE IF ParseDuration(window) = Nil THEN points
    ELSE SelectSeq(points,
                   LAMBDA p : /\ p.Timestamp # Nil
                              /\ p.Timestamp[1] > t - ParseDuration(window)[1])

RECURSIVE SumValues(_)
\* the loop sum += val
SumValues(pts) ==
    IF pts = <<>> THEN 0 ELSE pts[1].Value + SumValues(Tail(pts))

RECURSIVE SumSquares(_)
\* the sum of val * val
SumSquares(pts) ==
    IF pts = <<>> THEN 0 ELSE pts[1].Value * pts[1].Value + SumSquares(Tail(pts))

Fraction(num, den) == [num |-> num, den |-> den]

\* the float64 0 these methods return without dividing
Zero == Fraction(0, 1)

\* the mean of MA: sum / float64(len(points))
MeanOf(pts) == Fraction(SumValues(pts), Len(pts))

\* the variance of StdDev, sum((val - mean)^2) / n = (n*sum(val^2) - sum^2) / n^2;
\* StdDev returns its square root
StdDevOf(pts) ==
    Fraction(Len(pts) * SumSquares(pts) - SumValues(pts) * SumValues(pts),
             Len(pts) * Len(pts))

\* Cache.MA
MA(points, window, t) ==
    LET pts == getPointsInWindow(points, window, t)
    IN  IF Len(pts) = 0 THEN <<Zero, NoError>>
        ELSE IF cfg.type # "float64" THEN <<Zero, "value is not a float64 type">>
        ELSE <<MeanOf(pts), NoError>>

\* StdDev asserting the type of the values before the single-point return
StdDev_TypeCheckFirst(points, window, t) ==
    LET pts == getPointsInWindow(points, window, t)
    IN  IF Len(pts) = 0 THEN <<Zero, NoError>>
        ELSE IF cfg.type # "float64" THEN <<Zero, "value is not a float64 type">>
        ELSE IF Len(pts) = 1 THEN <<Zero, NoError>>
        ELSE <<StdDevOf(pts), NoError>>

\* Cache.StdDev
StdDev(points, window, t) ==
    LET pts == getPointsInWindow(points, window, t)
    IN  IF Len(pts) = 0 THEN <<Zero, NoError>>
        ELSE IF Len(pts) = 1 THEN <<Zero, NoError>>
        ELSE IF cfg.type # "float64" THEN <<Zero, "value is not a float64 type">>
        ELSE <<StdDevOf(pts), NoError>>

\* the number of distinct values among pts
RunsOf_DistinctValues(pts) ==
    Cardinality({pts[k].Value : k \in 1 .. Len(pts)})

\* the adjacent pairs counted in the opposite direction
PairsOf_Swapped(pts, from, to) ==
    Cardinality({k \in 2 .. Len(pts) :
                    pts[k - 1].Value = to /\ pts[k].Value = from})

\* the loop of Count: 1 for the first point, 1 more for each point whose
\* value differs from its predecessor's
RunsOf(pts) ==
    1 + Cardinality({k \in 2 .. Len(pts) :
                        ~isValueEqual(pts[k].Value, pts[k - 1].Value)})

\* Cache.Count
Count(points, window, t) ==
    LET pts == getPointsInWindow(points, window, t)
    IN  IF Len(pts) <= 1 THEN Len(pts) ELSE RunsOf(pts)

\* the adjacent pairs (from, to) among pts
PairsOf(pts, from, to) ==
    Cardinality({k \in 2 .. Len(pts) :
                    pts[k - 1].Value = from /\ pts[k].Value = to})

\* Cache.RC
RC(points, window, t) ==
    LET pts == getPointsInWindow(points, window, t)
    IN  IF Len(pts) < 2 THEN <<0, NoError>>
        ELSE IF cfg.type # "bool" THEN <<0, "value is not a bool type">>
        ELSE <<PairsOf(pts, FALSE, TRUE), NoError>>

\* Cache.FC
FC(points, window, t) ==
    LET pts == getPointsInWindow(points, window, t)
    IN  IF Len(pts) < 2 THEN <<0, NoError>>
        ELSE IF cfg.type # "bool" THEN <<0, "value is not a bool type">>
        ELSE <<PairsOf(pts, TRUE, FALSE), NoError>>

\* BaselineIndices also taking a point stamped exactly at the target time
BaselineIndices_AtOrBefore(points, target) ==
    {k \in 1 .. Len(points) :
        points[k].Timestamp # Nil /\ points[k].Timestamp[1] <= target}

\* the points the loop of PctChangeSince and DiffSince accepts: a timestamp
\* Before(targetTime)
BaselineIndices(points, target) ==
    {k \in 1 .. Len(points) :
        points[k].Timestamp # Nil /\ points[k].Timestamp[1] < target}

\* the loop runs from the end of the slice down and breaks at the first
\* accepted point: the highest accepted index
BaselineIndex(points, target) ==
    CHOOSE k \in BaselineIndices(points, target) :
        \A j \in BaselineIndices(points, target) : j <= k

\* Cache.PctChangeSince
PctChangeSince(points, window, t) ==
    IF Len(points) = 0 THEN <<Zero, NoError>>
    ELSE IF cfg.type # "float64" THEN <<Zero, "value is not a float64 type">>
    ELSE IF ParseDuration(window) = Nil THEN <<Zero, "invalid time window format">>
    ELSE LET target == t - ParseDuration(window)[1]
         IN  IF BaselineIndices(points, target) = {}
             THEN <<Zero, "no data point found before the specified time window">>
             ELSE LET baseVal    == points[BaselineIndex(points, target)].Value
                      currentVal == Current(points)
                  IN  IF baseVal = 0
                      THEN IF currentVal = 0
                           THEN <<Zero, NoError>>
                           ELSE <<Zero, "cannot calculate percentage change from zero">>
                      ELSE <<Fraction((currentVal - baseVal) * 100, baseVal),
                             NoError>>

\* Cache.DiffSince
DiffSince(points, window, t) ==
    IF Len(points) = 0 THEN <<0, NoError>>
    ELSE IF cfg.type # "float64" THEN <<0, "value is not a float64 type">>
    ELSE IF ParseDuration(window) = Nil THEN <<0, "invalid time window format">>
    ELSE LET target == t - ParseDuration(window)[1]
         IN  IF BaselineIndices(points, target) = {}
             THEN <<0, "no data point found before the specified time window">>
             ELSE <<Current(points) - points[BaselineIndex(points, target)].Value,
                    NoError>>

\* a call of a windowed method: its name, its window argument, what it returned
Called(name, window, ret) ==
    [name |-> name, window |-> window, ret |-> ret, panicked |-> FALSE]

\* a windowed method reads the cache and returns
Call(name, window, ret) ==
    /\ ~op.panicked
    /\ op' = Called(name, window, ret)
    /\ UNCHANGED <<cfg, now, Points, LatestPush>>
    /\ UNCHANGED lockVars

CallMA(window) == Call("MA", window, MA(Points, window, now))

CallStdDev(window) == Call("StdDev", window, StdDev(Points, window, now))

CallCount(window) == Call("Count", window, Count(Points, window, now))

CallRC(window) == Call("RC", window, RC(Points, window, now))

CallFC(window) == Call("FC", window, FC(Points, window, now))

CallPctChangeSince(window) ==
    Call("PctChangeSince", window, PctChangeSince(Points, window, now))

CallDiffSince(window) == Call("DiffSince", window, DiffSince(Points, window, now))

\* getPointsInWindow is not exported: the windowed methods are its callers.
\* The call returns the slice and leaves the cache alone
CallGetPointsInWindow(window) ==
    Call("getPointsInWindow", window, getPointsInWindow(Points, window, now))

\* the values stored in the caches the analytics run on
AnalyticsValues(T) == IF T = "float64" THEN {0, 1} ELSE Values(T)

\* a float64 and a bool cache, never evicting
AnalyticsConfigs == {Config(T, Nil, <<Nil, Nil>>, 0) : T \in {"float64", "bool"}}

InitAnalytics == \E c \in AnalyticsConfigs : InitWith(c)

NextAnalytics ==
    \/ \E value \in AnalyticsValues(cfg.type), timestamp \in AnyTimestamp :
          AddPoint(value, timestamp)
    \/ \E window \in Windows : CallMA(window)
    \/ \E window \in Windows : CallStdDev(window)
    \/ \E window \in Windows : CallCount(window)
    \/ \E window \in Windows : CallRC(window)
    \/ \E window \in Windows : CallFC(window)
    \/ \E window \in Windows : CallPctChangeSince(window)
    \/ \E window \in Windows : CallDiffSince(window)
    \/ \E window \in Windows : CallGetPointsInWindow(window)
    \/ Advance

\* one cache under AddPoint and the windowed methods
SpecAnalytics == InitAnalytics /\ [][NextAnalytics]_vars

----------------------------------------------------------------------------
(* The read methods of the cache that take no window.  A byte is an integer
   0 .. 255.  A *Point[T] handed to the caller is the memory cell it points
   to: a cell of its own holding a copy, or a slot of the cache's slice. *)

\* Cache.Rising: <<rising, error>>.  The error is returned on every path with
\* two or more points but the one that returns true
Rising(points) ==
    IF Len(points) < 2 THEN <<FALSE, NoError>>
    ELSE IF cfg.type = "bool" /\ Current(points)
         THEN IF ~Previous(points)
              THEN <<TRUE, NoError>>
              ELSE <<FALSE, "value is not a bool type">>
    ELSE <<FALSE, "value is not a bool type">>

\* Cache.Falling: <<falling, error>>
Falling(points) ==
    IF Len(points) < 2 THEN <<FALSE, NoError>>
    ELSE IF cfg.type = "bool" /\ ~Current(points)
         THEN IF Previous(points)
              THEN <<TRUE, NoError>>
              ELSE <<FALSE, "value is not a bool type">>
    ELSE <<FALSE, "value is not a bool type">>

\* val & (1 << bitIndex) != 0 on a byte
BitSet(val, bitIndex) == (val \div (2 ^ bitIndex)) % 2 = 1

\* Bit numbering the bits of a byte from its most significant one
Bit_MostSignificantFirst(points, index) ==
    IF Len(points) = 0 THEN <<FALSE, NoError>>
    ELSE IF cfg.type # "bytes" THEN <<FALSE, "value is not a []byte type">>
    ELSE LET val == Current(points)
         IN  IF index >= 0 /\ index < Len(val) * 8
             THEN <<BitSet(val[GoDiv(index, 8) + 1], 7 - GoRem(index, 8)), NoError>>
             ELSE <<FALSE, "index out of range">>

\* Cache.Bit: <<bit, error>>; val[byteIndex] of the code is val[byteIndex + 1]
\* of the sequence
Bit(points, index) ==
    IF Len(points) = 0 THEN <<FALSE, NoError>>
    ELSE IF cfg.type # "bytes" THEN <<FALSE, "value is not a []byte type">>
    ELSE LET val == Current(points)
         IN  IF index >= 0 /\ index < Len(val) * 8
             THEN LET byteIndex == GoDiv(index, 8)
                      bitIndex  == GoRem(index, 8)
                  IN  IF byteIndex < Len(val)
                      THEN <<BitSet(val[byteIndex + 1], bitIndex), NoError>>
                      ELSE <<FALSE, "index out of range">>
             ELSE <<FALSE, "index out of range">>

\* Cache.Latest
CacheLatest(points) ==
    IF Len(points) = 0 THEN ZeroValue(cfg.type) ELSE points[Len(points)].Value

\* a *Point[T]: the cell it points to
PointRef(cell, index, point) == [cell |-> cell, index |-> index, point |-> point]

\* what the caller reads through the pointer while the cache holds points
Deref(ref, points) ==
    IF ref.cell = "copy" THEN ref.point ELSE points[ref.index]

\* Point returning &c.Points[len(c.Points)-1], the slot of the slice
CachePoint_Alias(points) ==
    IF Len(points) = 0 THEN Nil
    ELSE Some(PointRef("slice", Len(points), points[Len(points)]))

\* Cache.Point: nil, or the address of the local copy latest
CachePoint(points) ==
    IF Len(points) = 0 THEN Nil
    ELSE Some(PointRef("copy", Len(points), points[Len(points)]))

\* a call of a read method: its name, its argument, what it returned
CalledWith(name, arg, ret) ==
    [name |-> name, arg |-> arg, ret |-> ret, panicked |-> FALSE]

\* a read method reads the cache and returns
CallRead(name, arg, ret) ==
    /\ ~op.panicked
    /\ op' = CalledWith(name, arg, ret)
    /\ UNCHANGED <<cfg, now, Points, LatestPush>>
    /\ UNCHANGED lockVars

CallRising == CallRead("Rising", Nil, Rising(Points))

CallFalling == CallRead("Falling", Nil, Falling(Points))

CallPctChange == CallRead("PctChange", Nil, PctChange(Points))

CallChanged == CallRead("Changed", Nil, Changed(Points))

CallBit(index) == CallRead("Bit", Some(index), Bit(Points, index))

CallValue == CallRead("Value", Nil, CacheValue(Points))

CallLatest == CallRead("Latest", Nil, CacheLatest(Points))

CallTimestamp == CallRead("Timestamp", Nil, CacheTimestamp(Points))

CallPoint == CallRead("Point", Nil, CachePoint(Points))

\* the values stored in the caches the read methods run on: 0 among the
\* floats, and byte sequences of equal length and different content
ReadsValues(T) ==
    CASE T = "float64" -> {0, 1, 2}
      [] T = "bytes"   -> {<<1>>, <<2>>, <<0, 16>>}
      [] OTHER         -> Values(T)

\* the bit positions asked of Bit
BitIndices == {-1, 0, 1, 7, 8, 12, 15, 16, 20}

\* one cache of each type, never evicting
ReadsConfigs ==
    {Config(T, Nil, <<Nil, Nil>>, 0) : T \in {"float64", "bool", "string", "bytes"}}

InitReads == \E c \in ReadsConfigs : InitWith(c)

NextReads ==
    \/ \E value \in ReadsValues(cfg.type), timestamp \in ReadTimestamp :
          AddPoint(value, timestamp)
    \/ CallRising
    \/ CallFalling
    \/ CallPctChange
    \/ CallChanged
    \/ \E index \in BitIndices : CallBit(index)
    \/ CallValue
    \/ CallLatest
    \/ CallTimestamp
    \/ CallPoint
    \/ Advance

\* one cache under AddPoint and the read methods without a window
SpecReads == InitReads /\ [][NextReads]_vars

----------------------------------------------------------------------------
(* DataType.ConvertFromAny on Bool, the integer targets of 8 and 16 bits,
   Float32 and the byte-packed targets, with ConvertToBytes and
   ConvertToFloat64.  A dynamically typed value is its Go type (kind) and
   its number, truth value or bytes (v); the float sources hold whole
   numbers.  The integer targets of 32 and 64 bits have the same shape of
   code; their bounds lie beyond the integers checked here, and the numbers
   converted stay below 2^31. *)

SignedKinds == {"int", "int8", "int16", "int32", "int64"}

UnsignedKinds == {"uint", "uint8", "uint16", "uint32", "uint64"}

FloatKinds == {"float32", "float64"}

NumericKinds == SignedKinds \cup UnsignedKinds \cup FloatKinds

\* the DataType constants modelled
IntegerDataTypes == {"Int8", "Int16", "UInt8", "UInt16"}

\* the Go type a DataType converts to
GoKind(dt) ==
    CASE dt = "Int8"   -> "int8"
      [] dt = "Int16"  -> "int16"
      [] dt = "UInt8"  -> "uint8"
      [] dt = "UInt16" -> "uint16"

\* math.MinInt8, math.MinInt16, and 0 for the unsigned types
MinOf(kind) ==
    CASE kind = "int8"  -> -128
      [] kind = "int16" -> -32768
      [] OTHER          -> 0

\* math.MaxInt8, math.MaxUint8, math.MaxInt16, math.MaxUint16
MaxOf(kind) ==
    CASE kind = "int8"   -> 127
      [] kind = "uint8"  -> 255
      [] kind = "int16"  -> 32767
      [] kind = "uint16" -> 65535

BitsOf(kind) == IF kind \in {"int8", "uint8"} THEN 8 ELSE 16

\* the Go conversion int8(v), int16(v), uint8(v), uint16(v) of an integer:
\* the low bits of v, read in two's complement for a signed type
Truncate(kind, v) ==
    LET low == v % (2 ^ BitsOf(kind))
    IN  IF kind \in SignedKinds /\ low > MaxOf(kind)
        THEN low - 2 ^ BitsOf(kind)
        ELSE low

\* the source types whose case tests the value against the lower bound
ChecksLow(dt, kind) ==
    CASE dt \in {"Int8", "Int16"}   -> kind \in FloatKinds
      [] dt \in {"UInt8", "UInt16"} -> kind \in SignedKinds \cup FloatKinds

\* the source types whose case tests the value against the upper bound
ChecksHigh(dt, kind) ==
    CASE dt = "Int8"   -> kind \in UnsignedKinds \cup FloatKinds
      [] dt = "Int16"  -> kind \in FloatKinds
      [] dt = "UInt8"  -> kind \notin {"int8", "uint8"}
      [] dt = "UInt16" -> kind \notin {"int8", "int16", "uint8", "uint16"}

\* the integer targets: <<converted value or nil, error>>
ConvertToInteger(dt, value) ==
    IF value.kind \notin NumericKinds
    THEN <<Nil, "cannot convert">>
    ELSE IF \/ ChecksLow(dt, value.kind) /\ value.v < MinOf(GoKind(dt))
            \/ ChecksHigh(dt, value.kind) /\ value.v > MaxOf(GoKind(dt))
    THEN <<Nil, "out of range">>
    ELSE <<Some([kind |-> GoKind(dt), v |-> Truncate(GoKind(dt), value.v)]),
           NoError>>

\* Bool taking only the positive numbers as true
ConvertToBool_PositiveIsTrue(value) ==
    IF value.kind = "bool"
    THEN <<Some(value), NoError>>
    ELSE IF value.kind \in NumericKinds
    THEN <<Some([kind |-> "bool", v |-> value.v > 0]), NoError>>
    ELSE <<Nil, "cannot convert">>

\* case DataTypeBool: a bool as it is, a number by v != 0
ConvertToBool(value) ==
    IF value.kind = "bool"
    THEN <<Some(value), NoError>>
    ELSE IF value.kind \in NumericKinds
    THEN <<Some([kind |-> "bool", v |-> value.v # 0]), NoError>>
    ELSE <<Nil, "cannot convert">>

RECURSIVE BitLen(_)
\* the number of significant bits of m >= 0
BitLen(m) == IF m = 0 THEN 0 ELSE 1 + BitLen(m \div 2)

\* the conversion float32(v) of a whole number: the nearest number with a
\* significand of 24 bits, ties to the even significand
RoundToFloat32(n) ==
    LET m == Abs(n)
    IN  IF BitLen(m) <= 24 THEN n
        ELSE LET ulp == 2 ^ (BitLen(m) - 24)
                 q   == m \div ulp
                 r   == m % ulp
                 up  == IF 2 * r > ulp \/ (2 * r = ulp /\ q % 2 = 1) THEN 1 ELSE 0
             IN  (IF n < 0 THEN -1 ELSE 1) * (q + up) * ulp

\* float32 keeping the number as it is
ConvertToFloat32_Exact(value) ==
    IF value.kind \in NumericKinds
    THEN <<Some([kind |-> "float32", v |-> value.v]), NoError>>
    ELSE <<Nil, "cannot convert">>

\* case DataTypeFloat32: float32(v); math.MaxFloat32, against which int,
\* int64, uint, uint64 and float64 are tested, is above every number here
ConvertToFloat32(value) ==
    IF value.kind \in NumericKinds
    THEN <<Some([kind |-> "float32", v |-> RoundToFloat32(value.v)]), NoError>>
    ELSE <<Nil, "cannot convert">>

\* the byte-packed targets
PackedDataTypes == {"Byte", "Word", "DWord"}

\* the length of the array [1]byte, [2]byte, [4]byte
WidthOf(dt) ==
    CASE dt = "Byte"  -> 1
      [] dt = "Word"  -> 2
      [] dt = "DWord" -> 4

\* the Go type [1]byte, [2]byte, [4]byte
ArrayKind(dt) ==
    CASE dt = "Byte"  -> "[1]byte"
      [] dt = "Word"  -> "[2]byte"
      [] dt = "DWord" -> "[4]byte"

\* copy(arr[:], v) into a zeroed array of n bytes
CopyInto(n, v) == [k \in 1 .. n |-> IF k <= Len(v) THEN v[k] ELSE 0]

\* the array written most significant byte first
PackBytes_BigEndian(n, v) ==
    [k \in 1 .. n |-> (v \div (2 ^ (8 * (n - k)))) % 256]

\* [n]byte{byte(v), byte(v >> 8), ...}
PackBytes(n, v) ==
    [k \in 1 .. n |-> (v \div (2 ^ (8 * (k - 1)))) % 256]

\* the integer sources whose case tests v against the upper bound of the
\* array; math.MaxUint32, the bound of DWord, is above every number here
PackedChecksHigh(dt, kind) ==
    CASE dt = "Byte"  -> kind \notin {"int8", "uint8"}
      [] dt = "Word"  -> kind \notin {"int8", "int16", "uint8", "uint16"}
      [] dt = "DWord" -> FALSE

\* case DataTypeByte, DataTypeWord, DataTypeDWord: a byte slice or a string
\* that fits is copied, an array of the same length is returned as it is, an
\* integer is tested (v < 0 for every signed type) and packed; a float has no
\* case
ConvertToPacked(dt, value) ==
    IF value.kind \in {"bytes", "string"}
    THEN IF Len(value.v) > WidthOf(dt)
         THEN <<Nil, "too long">>
         ELSE <<Some([kind |-> ArrayKind(dt), v |-> CopyInto(WidthOf(dt), value.v)]),
                NoError>>
    ELSE IF value.kind = ArrayKind(dt)
    THEN <<Some(value), NoError>>
    ELSE IF value.kind \in SignedKinds \cup UnsignedKinds
    THEN IF \/ value.kind \in SignedKinds /\ value.v < 0
            \/ PackedChecksHigh(dt, value.kind)
                  /\ value.v > 2 ^ (8 * WidthOf(dt)) - 1
         THEN <<Nil, "out of range">>
         ELSE <<Some([kind |-> ArrayKind(dt),
                      v |-> PackBytes(WidthOf(dt), value.v)]), NoError>>
    ELSE <<Nil, "cannot convert">>

\* dt.ConvertFromAny(value): <<converted value or nil, error>>
ConvertFromAny(dt, value) ==
    CASE dt = "Bool"            -> ConvertToBool(value)
      [] dt \in IntegerDataTypes -> ConvertToInteger(dt, value)
      [] dt = "Float32"         -> ConvertToFloat32(value)
      [] dt \in PackedDataTypes -> ConvertToPacked(dt, value)

\* ConvertToBytes: <<the byte slice or nil, error>>
ConvertToBytes(value) ==
    IF value.kind \in {"bytes", "string", "[1]byte", "[2]byte", "[4]byte"}
    THEN <<Some(value.v), NoError>>
    ELSE <<Nil, "unsupported type">>

\* the numbers converted: around the bounds of the integer targets, around
\* 2^24, where float32 stops holding every whole number, and a number of 31
\* bits
CodecNumbers ==
    {-32769, -32768, -129, -128, -1, 0, 1, 127, 128, 200, 255, 256,
     32767, 32768, 65535, 65536, 16777216, 16777217, 16777219, 2130706433}

\* a number a value of the Go type can hold
Holds(kind, n) ==
    CASE kind \in {"int8", "int16", "uint8", "uint16"} ->
             MinOf(kind) <= n /\ n <= MaxOf(kind)
      [] kind \in UnsignedKinds -> n >= 0
      [] kind = "float32" -> RoundToFloat32(n) = n
      [] OTHER -> TRUE

\* the sorts of dynamically typed values: numbers, truth values, bytes
CodecSorts == {"number", "bool", "bytes"}

\* the values handed to ConvertFromAny: every numeric type, bool, and strings,
\* byte slices and arrays (v their bytes) of several lengths
CodecValues(sort) ==
    CASE sort = "number" ->
             {[kind |-> k, v |-> n] : k \in NumericKinds, n \in CodecNumbers}
      [] sort = "bool" -> {[kind |-> "bool", v |-> b] : b \in BOOLEAN}
      [] sort = "bytes" ->
             {[kind |-> k, v |-> s] :
                 k \in {"string", "bytes"}, s \in {<<>>, <<55>>, <<1, 2, 3, 4, 5>>}}
             \cup {[kind |-> "[1]byte", v |-> <<7>>],
                   [kind |-> "[2]byte", v |-> <<7, 1>>],
                   [kind |-> "[4]byte", v |-> <<7, 1, 0, 2>>]}

\* the DataType constants of the variables converted to
CodecDataTypes ==
    {"Bool", "Float32"} \cup IntegerDataTypes \cup PackedDataTypes

\* a variable declared with the data type dt, without a cache
CodecConfig(dt) ==
    [type |-> "none", PublishCycle |-> Nil, DiffThreshold |-> Nil,
     PctThreshold |-> Nil, ExpireDuration |-> 0, DataType |-> dt]

\* a call on the codec returns
CallCodec(name, value, ret) ==
    /\ ~op.panicked
    /\ value.kind \in NumericKinds => Holds(value.kind, value.v)
    /\ op' = CalledWith(name, Some(value), ret)
    /\ UNCHANGED <<cfg, now, Points, LatestPush>>
    /\ UNCHANGED lockVars

\* dt.ConvertFromAny(value) is called and returns
Convert(value) ==
    CallCodec("ConvertFromAny", value, ConvertFromAny(cfg.DataType, value))

\* ConvertToBytes of what dt.ConvertFromAny(value) returned, as WriteValue
\* chains them
ConvertThenToBytes(value) ==
    CallCodec("ConvertToBytes", value,
              LET converted == ConvertFromAny(cfg.DataType, value)
              IN  IF converted[2] # NoError THEN converted
                  ELSE ConvertToBytes(converted[1][1]))

\* ConvertToFloat64 of what dt.ConvertFromAny(value) returned
ConvertThenToFloat64(value) ==
    CallCodec("ConvertToFloat64", value,
              LET converted == ConvertFromAny(cfg.DataType, value)
              IN  IF converted[2] # NoError THEN converted
                  ELSE IF ConvertToFloat64(converted[1][1]) = Nil
                  THEN <<Nil, "unsupported type">>
                  ELSE <<ConvertToFloat64(converted[1][1]), NoError>>)

InitCodec == \E dt \in CodecDataTypes : InitWith(CodecConfig(dt))

NextCodec ==
    \/ \E sort \in CodecSorts : \E value \in CodecValues(sort) : Convert(value)
    \/ \E sort \in CodecSorts : \E value \in CodecValues(sort) :
          ConvertThenToBytes(value)
    \/ \E sort \in CodecSorts : \E value \in CodecValues(sort) :
          ConvertThenToFloat64(value)

\* conversions of dynamically typed values to one data type
SpecCodec == InitCodec /\ [][NextCodec]_vars

----------------------------------------------------------------------------
(* Model construction: DeviceModel.UnmarshalJSON.  The "variables" object of
   the document is the sequence of its members in document order, each the
   member's name (key) with the fields of the variable that the checks read.
   Data types and durations in the documents are well formed. *)

\* the member names of the first and of the second variable of a document
MemberKeys(k) == IF k = 1 THEN {"a", "a-"} ELSE {"b", "b-"}

\* keyRegex.MatchString(key) for ^\w+$
KeyRegexMatches(key) == key \in {"a", "b", "other"}

\* expr.Compile(script, ...) succeeds
Compiles(script) == script # "+++"

\* one member of "variables"
VariableDocs(k) ==
    [key : MemberKeys(k), Key : MemberKeys(k) \cup {"other"},
     Connection : {"", "plc1"}, Script : {"", "+++"},
     AsTag : BOOLEAN, AsEvent : BOOLEAN, DataTypeStr : {"String", "Bool"}]

\* the documents: one or two variables
ModelDocs ==
    {<<v>> : v \in VariableDocs(1)}
    \cup {<<v, w>> : v \in {x \in VariableDocs(1) : x.Script = ""},
                     w \in {x \in VariableDocs(2) : x.Connection = ""}}

\* Variable.UnmarshalJSON: the error it returns, as_tag tested before as_event
VariableUnmarshalJSON(v) ==
    IF v.AsTag /\ v.DataTypeStr # "String" THEN "cannot be used as a tag"
    ELSE IF v.AsEvent /\ v.DataTypeStr # "Bool" THEN "cannot be used as an event"
    ELSE NoError

\* the errors appended to errs for one variable by the loop of
\* DeviceModel.UnmarshalJSON
LoopErrors(v) ==
    (IF ~KeyRegexMatches(v.key) THEN {<<v.key, "Invalid variable key">>} ELSE {})
    \cup (IF v.key # v.Key THEN {<<v.key, "Variable key mismatch">>} ELSE {})
    \cup (IF v.Connection = "" /\ v.Script # "" /\ ~Compiles(v.Script)
          THEN {<<v.key, "script">>} ELSE {})

\* the error of DeviceModel.UnmarshalJSON: nil, or the messages it carries,
\* each the variable it names and what it reports
ModelError(failed, messages) == [failed |-> failed, messages |-> messages]

\* DeviceModel.UnmarshalJSON: json.Unmarshal decodes the variables in document
\* order and returns the error of the first Variable.UnmarshalJSON that fails;
\* only then the loop over m.Variables collects errs
DeviceModelUnmarshalJSON(doc) ==
    LET failing == {k \in 1 .. Len(doc) : VariableUnmarshalJSON(doc[k]) # NoError}
    IN  IF failing # {}
        THEN LET first == CHOOSE k \in failing : \A j \in failing : k <= j
             IN  ModelError(TRUE, {<<doc[first].key,
                                     VariableUnmarshalJSON(doc[first])>>})
        ELSE LET errs == UNION {LoopErrors(doc[k]) : k \in 1 .. Len(doc)}
             IN  ModelError(errs # {}, errs)

\* the document a model is constructed from
ModelConfig(doc) ==
    [type |-> "none", PublishCycle |-> Nil, DiffThreshold |-> Nil,
     PctThreshold |-> Nil, ExpireDuration |-> 0, Variables |-> doc]

\* json.Unmarshal(document, &deviceModel)
UnmarshalModel ==
    /\ ~op.panicked
    /\ op' = CalledWith("DeviceModel.UnmarshalJSON", Nil,
                        DeviceModelUnmarshalJSON(cfg.Variables))
    /\ UNCHANGED <<cfg, now, Points, LatestPush>>
    /\ UNCHANGED lockVars

InitModel == \E doc \in ModelDocs : InitWith(ModelConfig(doc))

NextModel == UnmarshalModel

\* the construction of a device model from a document
SpecModel == InitModel /\ [][NextModel]_vars

----------------------------------------------------------------------------
(* The configuration hash and the JSON form of a model.  An md5 digest is
   the sequence of strings written to it, in order.  A JSON object is the
   record of its members, a member left out being nil. *)

\* time.Duration.String()
DurationString(d) ==
    CASE d = 0  -> "0s"
      [] d = 1  -> "1s"
      [] d = 2  -> "2s"
      [] d = 60 -> "1m0s"

\* fmt.Sprintf("%0.8f", x)
Format8(x) ==
    CASE x = 0 -> "0.00000000"
      [] x = 1 -> "1.00000000"
      [] x = 2 -> "2.00000000"

\* fmt.Sprintf("%t", b)
FormatBool(b) == IF b THEN "true" ELSE "false"

\* the string written for an optional field: nothing when it is nil
Written(field, format(_)) == IF field = Nil THEN <<>> ELSE <<format(field[1])>>

\* Variable.Hash
VariableHash(v) ==
    <<v.Key, v.Connection, v.Address, v.Script, v.DataTypeStr>>
    \o Written(v.DiffThreshold, Format8)
    \o Written(v.PctThreshold, Format8)
    \o Written(v.Scale, Format8)
    \o Written(v.Offset, Format8)
    \o <<FormatBool(v.Writable), FormatBool(v.AsTag), FormatBool(v.AsEvent)>>
    \o Written(v.CacheDuration, DurationString)
    \o Written(v.PublishCycle, DurationString)

\* the order of strings that sort.Strings establishes among the keys used
KeyRank(k) ==
    CASE k = "plc1" -> 1
      [] k = "plc2" -> 2
      [] OTHER      -> 3

\* sort.Strings(keys)
SortStrings(keys) ==
    CHOOSE s \in [1 .. Len(keys) -> {keys[k] : k \in 1 .. Len(keys)}] :
        /\ {s[k] : k \in 1 .. Len(s)} = {keys[k] : k \in 1 .. Len(keys)}
        /\ \A j, k \in 1 .. Len(s) : j < k => KeyRank(s[j]) < KeyRank(s[k])

RECURSIVE ConnectionsHash(_, _)
\* the loop writing "key:type;" for each connection key in turn
ConnectionsHash(connections, keys) ==
    IF keys = <<>> THEN <<>>
    ELSE <<keys[1], ":", connections[keys[1]], ";">>
         \o ConnectionsHash(connections, Tail(keys))

\* DeviceModel.Hash of a model with the variable v, its map of connections
\* iterated in the order connKeys
DeviceModelHash(v, connKeys) ==
    ConnectionsHash(v.Connections, SortStrings(connKeys))
    \o <<v.Key, ":">> \o VariableHash(v) \o <<";">>

\* Variable.MarshalJSON: the tagged fields (pointers and bools with
\* omitempty), the untagged PublishCycle and CacheDuration, and the two
\* duration strings (omitempty)
VariableMarshalJSON(v) ==
    [key |-> v.Key, connection |-> v.Connection, address |-> v.Address,
     script |-> v.Script, data_type |-> v.DataTypeStr,
     diff_threshold |-> v.DiffThreshold, pct_threshold |-> v.PctThreshold,
     scale |-> v.Scale, offset |-> v.Offset,
     writable |-> IF v.Writable THEN Some(TRUE) ELSE Nil,
     as_tag |-> IF v.AsTag THEN Some(TRUE) ELSE Nil,
     as_event |-> IF v.AsEvent THEN Some(TRUE) ELSE Nil,
     PublishCycle |-> v.PublishCycle, CacheDuration |-> v.CacheDuration,
     publish_cycle |-> IF v.PublishCycle = Nil THEN Nil
                       ELSE Some(DurationString(v.PublishCycle[1])),
     cache_duration |-> IF v.CacheDuration = Nil THEN Nil
                        ELSE Some(DurationString(v.CacheDuration[1])),
     connections |-> v.Connections]

\* a bool member with omitempty: false when left out
BoolMember(member) == member # Nil /\ member[1]

\* UnmarshalJSON setting the cache duration to time.Minute whatever the
\* document says
VariableFromJSON_MinuteAlways(doc) ==
    [Key |-> doc.key, Connection |-> doc.connection, Address |-> doc.address,
     Script |-> doc.script, DataTypeStr |-> doc.data_type,
     DiffThreshold |-> doc.diff_threshold, PctThreshold |-> doc.pct_threshold,
     Scale |-> doc.scale, Offset |-> doc.offset,
     Writable |-> BoolMember(doc.writable), AsTag |-> BoolMember(doc.as_tag),
     AsEvent |-> BoolMember(doc.as_event),
     PublishCycle |-> IF doc.publish_cycle # Nil
                      THEN ParseDuration(doc.publish_cycle[1])
                      ELSE doc.PublishCycle,
     CacheDuration |-> Some(60),
     Connections |-> doc.connections]

\* Variable.UnmarshalJSON on a well-formed document: the members as decoded,
\* publish_cycle and cache_duration parsed when present, and the cache
\* duration set to time.Minute when cache_duration is absent
VariableFromJSON(doc) ==
    [Key |-> doc.key, Connection |-> doc.connection, Address |-> doc.address,
     Script |-> doc.script, DataTypeStr |-> doc.data_type,
     DiffThreshold |-> doc.diff_threshold, PctThreshold |-> doc.pct_threshold,
     Scale |-> doc.scale, Offset |-> doc.offset,
     Writable |-> BoolMember(doc.writable), AsTag |-> BoolMember(doc.as_tag),
     AsEvent |-> BoolMember(doc.as_event),
     PublishCycle |-> IF doc.publish_cycle # Nil
                      THEN ParseDuration(doc.publish_cycle[1])
                      ELSE doc.PublishCycle,
     CacheDuration |-> IF doc.cache_duration # Nil
                       THEN ParseDuration(doc.cache_duration[1])
                       ELSE Some(60),
     Connections |-> doc.connections]

\* a device model built in code: two connections and one float64 variable
\* with its optional fields; the cache is the one createCache makes
HashConfig(diff, pct, scale, offset, writable, publishCycle, cacheDuration) ==
    [type |-> "float64", Key |-> "temp", Connection |-> "plc1",
     Address |-> "DB1.DBD0", Script |-> "", DataTypeStr |-> "Float64",
     DiffThreshold |-> diff, PctThreshold |-> pct, Scale |-> scale,
     Offset |-> offset, Writable |-> writable, AsTag |-> FALSE,
     AsEvent |-> FALSE, PublishCycle |-> publishCycle,
     CacheDuration |-> cacheDuration,
     ExpireDuration |-> IF cacheDuration = Nil THEN 60 ELSE cacheDuration[1],
     Connections |-> [k \in {"plc1", "plc2"} |->
                         IF k = "plc1" THEN "modbus" ELSE "ethernet"]]

HashConfigs ==
    {HashConfig(diff, pct, scale, offset, writable, publishCycle, cacheDuration) :
        diff \in {Nil, Some(1)}, pct \in {Nil, Some(1)}, scale \in {Nil, Some(2)},
        offset \in {Nil, Some(0)}, writable \in BOOLEAN,
        publishCycle \in {Nil, Some(0), Some(2)},
        cacheDuration \in {Nil, Some(1), Some(60)}}

\* the orders in which the map of connections may be iterated
IterationOrders == {<<"plc1", "plc2">>, <<"plc2", "plc1">>}

\* m.Hash()
CallHash(order) ==
    CallRead("Hash", Some(order), DeviceModelHash(cfg, order))

\* json.Marshal(m), json.Unmarshal into a new model, and its Hash()
CallRoundTripHash(order) ==
    CallRead("RoundTripHash", Some(order),
             DeviceModelHash(VariableFromJSON(VariableMarshalJSON(cfg)), order))

InitHash == \E c \in HashConfigs : InitWith(c)

NextHash ==
    \/ \E value \in {1, 2}, timestamp \in ReadTimestamp : AddPoint(value, timestamp)
    \/ GetPushValues(2, 0)
    \/ \E order \in IterationOrders : CallHash(order)
    \/ \E order \in IterationOrders : CallRoundTripHash(order)

\* a device model hashed while its variable ingests and publishes
SpecHash == InitHash /\ [][NextHash]_vars

----------------------------------------------------------------------------
(* The scheduler beside ingestion: GetPushValues on a *Cache[float64],
   statement by statement, while another goroutine is inside AddPoint.
   Cache.Value and Cache.PushValue read c.Points under RLock(); the other
   reads of cache.Points in GetPushValues take no lock.  The scheduler is
   goroutine 1 of readers; its locals are the one element of observed. *)

Scheduler == 1

\* the locals of GetPushValues: its arguments, changed, pushValue, pushValues
TickLocals(gcd, i, changed, pushValue, pushValues) ==
    [gcd |-> gcd, i |-> i, changed |-> changed, pushValue |-> pushValue,
     pushValues |-> pushValues]

TickAt(pc) == readers[Scheduler].pc = pc

Locals == readers[Scheduler].observed[1]

\* GetPushValues returns pushValues, or panics on an index out of range
TickReturns(locals, pushValues, panicked) ==
    /\ op' = OpRecord("GetPushValues", locals.gcd, locals.i, Nil, Nil,
                      pushValues, panicked, "", 0)
    /\ readers' = [readers EXCEPT ![Scheduler] = ReaderIdle]

TickGoes(pc, locals) ==
    /\ readers' = [readers EXCEPT ![Scheduler] =
                      [pc |-> pc, name |-> "GetPushValues",
                       observed |-> <<locals>>]]
    /\ UNCHANGED op

\* GetPushValues, lines 11-20: changed := v.ChangedWithLatestPushValue(),
\* which calls cache.Value() (under RLock) unless LatestPush is nil; then the
\* outer if
TickChanged(gcd, i) ==
    /\ TickAt("idle")
    /\ cfg.PublishCycle # Nil
    /\ HasCache
    /\ LatestPush = Nil \/ ~mu.writer
    /\ LET locals == TickLocals(gcd, i, ChangedWithLatestPushValue, Nil, <<>>)
       IN  IF EmitCondition(gcd, i)
           THEN TickGoes("PushValue", locals)
           ELSE TickReturns(locals, <<>>, FALSE)
    /\ UNCHANGED <<cfg, now, Points, LatestPush, mu, writer>>

\* GetPushValues, line 23: pushValue := cache.PushValue() (under RLock)
TickPushValue ==
    /\ TickAt("PushValue")
    /\ ~mu.writer
    /\ IF PushValue(Points) = Nil
       THEN TickReturns(Locals, <<>>, FALSE)
       ELSE TickGoes("len", [Locals EXCEPT !.pushValue = PushValue(Points)])
    /\ UNCHANGED <<cfg, now, Points, LatestPush, mu, writer>>

\* GetPushValues, lines 24-25: changed && len(cache.Points) >= 2, and the
\* type assertion on LatestPush
TickLen ==
    /\ TickAt("len")
    /\ IF Locals.changed /\ Len(Points) >= 2 /\ LatestPush # Nil
       THEN TickGoes("backfill", Locals)
       ELSE TickGoes("mark", Locals)
    /\ UNCHANGED <<cfg, now, Points, LatestPush, mu, writer>>

\* GetPushValues, lines 26-32: cache.Points[len(cache.Points)-2] is indexed
\* again; a negative index panics
TickBackFill ==
    /\ TickAt("backfill")
    /\ LET n == Len(Points)
       IN  IF n < 2
           THEN TickReturns(Locals, <<>>, TRUE)
           ELSE IF /\ LatestPush[1].Timestamp # Nil
                   /\ Points[n - 1].Timestamp # Nil
                   /\ LatestPush[1].Timestamp[1] # Points[n - 1].Timestamp[1]
                THEN TickGoes("mark",
                         [Locals EXCEPT !.pushValues =
                             <<[Value |-> Points[n - 1].Value,
                                Timestamp |-> Points[n - 1].Timestamp]>>])
                ELSE TickGoes("mark", Locals)
    /\ UNCHANGED <<cfg, now, Points, LatestPush, mu, writer>>

\* GetPushValues, lines 35-36 and 58: append pushValue, then
\* v.LatestPush = cache.Points[len(cache.Points)-1]; a negative index panics
TickMark ==
    /\ TickAt("mark")
    /\ IF Len(Points) = 0
       THEN /\ TickReturns(Locals, <<>>, TRUE)
            /\ UNCHANGED LatestPush
       ELSE /\ LatestPush' = Some(Points[Len(Points)])
            /\ TickReturns(Locals, Locals.pushValues \o Locals.pushValue, FALSE)
    /\ UNCHANGED <<cfg, now, Points, mu, writer>>

\* a panic ends the process
Running == ~op.panicked

\* the ticks of the scheduler: gcd is the common divisor of the cycles, and
\* the tick index is on the cycle (0) or off it (1)
TickGcds == {2}

TickCounts == {0, 1}

\* numeric variables published on change and on a cycle, without and with
\* eviction
TickConfigs ==
    {Config("float64", pc, <<Nil, Nil>>, e) :
        pc \in {Some(0), Some(2)}, e \in {0, 1}}

InitTick == \E c \in TickConfigs : InitWith(c)

NextTick ==
    /\ Running
    /\ \/ \E value \in Values(cfg.type), timestamp \in ReadTimestamp :
             AddPointBegin(value, timestamp)
       \/ AddPointLock
       \/ AddPointInsert
       \/ AddPointEvict
       \/ AddPointUnlock
       \/ \E gcd \in TickGcds, i \in TickCounts : TickChanged(gcd, i)
       \/ TickPushValue
       \/ TickLen
       \/ TickBackFill
       \/ TickMark
       \/ Advance

\* one scheduler goroutine in GetPushValues and one ingestion goroutine in
\* AddPoint, interleaved
SpecTick == InitTick /\ [][NextTick]_vars

----------------------------------------------------------------------------
(* The change detector beside ingestion: ChangedWithLatestPushValue on a
   *Cache[[]byte], statement by statement.  Every cache.Value() takes RLock()
   and returns the newest value of that moment, so AddPoint (under Lock())
   is one step between two of them.  The detector runs on the scheduler's
   goroutine; its locals are the loop index i, the length n the range
   statement found, and seen, the values its calls of cache.Value() returned. *)

DetectLocals(i, n, seen) == [i |-> i, n |-> n, seen |-> seen]

DetectReturns(ret, panicked) ==
    /\ op' = OpRecord("ChangedWithLatestPushValue", 0, 0, Nil, Nil, ret,
                      panicked, "", 0)
    /\ readers' = [readers EXCEPT ![Scheduler] = ReaderIdle]

DetectGoes(pc, locals) ==
    /\ readers' = [readers EXCEPT ![Scheduler] =
                      [pc |-> pc, name |-> "ChangedWithLatestPushValue",
                       observed |-> <<locals>>]]
    /\ UNCHANGED op

\* ChangedWithLatestPushValue, lines 62-101: nil checks, the type assertion,
\* len(cache.Value()) != len(latestPush.Value)
DetectLen ==
    /\ TickAt("idle")
    /\ HasCache
    /\ IF LatestPush = Nil
       THEN DetectReturns(<<TRUE>>, FALSE)
       ELSE IF Len(CacheValue(Points)) # Len(LatestPush[1].Value)
       THEN DetectReturns(<<TRUE>>, FALSE)
       ELSE DetectGoes("range", DetectLocals(0, 0, {CacheValue(Points)}))
    /\ UNCHANGED <<cfg, now, Points, LatestPush, mu, writer>>

\* ChangedWithLatestPushValue, line 102: for i := range cache.Value(), the
\* range expression evaluated once
DetectRange ==
    /\ TickAt("range")
    /\ LET value == CacheValue(Points)
       IN  IF Len(value) = 0
           THEN DetectReturns(<<FALSE>>, FALSE)
           ELSE DetectGoes("loop",
                    DetectLocals(0, Len(value), Locals.seen \cup {value}))
    /\ UNCHANGED <<cfg, now, Points, LatestPush, mu, writer>>

\* ChangedWithLatestPushValue, lines 102-107: one iteration,
\* cache.Value()[i] != latestPush.Value[i] with cache.Value() called again;
\* an index beyond either slice panics
DetectLoop ==
    /\ TickAt("loop")
    /\ LET i     == Locals.i
           value == CacheValue(Points)
           last  == LatestPush[1].Value
           seen  == Locals.seen \cup {value}
       IN  IF i >= Len(value) \/ i >= Len(last)
           THEN DetectReturns(<<>>, TRUE)
           ELSE IF value[i + 1] # last[i + 1]
           THEN DetectReturns(<<TRUE>>, FALSE)
           ELSE IF i + 1 = Locals.n
           THEN DetectReturns(<<FALSE>>, FALSE)
           ELSE DetectGoes("loop", [Locals EXCEPT !.i = i + 1, !.seen = seen])
    /\ UNCHANGED <<cfg, now, Points, LatestPush, mu, writer>>

\* byte sequences of two lengths; among those of length 2, two that differ
\* from a third at different indices
DetectBytes == {<<1>>, <<1, 0>>, <<1, 1>>, <<0, 0>>}

\* a bytes variable published on every tick
DetectConfigs == {Config("bytes", Some(2), <<Nil, Nil>>, 0)}

InitDetect == \E c \in DetectConfigs : InitWith(c)

\* the scheduler's goroutine calls GetPushValues or the detector, one after
\* the other; ingestion calls AddPoint at any moment
NextDetect ==
    /\ Running
    /\ \/ \E value \in DetectBytes, timestamp \in ReadTimestamp :
             AddPoint(value, timestamp)
       \/ TickAt("idle") /\ GetPushValues(2, 0)
       \/ DetectLen
       \/ DetectRange
       \/ DetectLoop
       \/ Advance

\* one goroutine in ChangedWithLatestPushValue and GetPushValues, one in
\* AddPoint, on a bytes variable
SpecDetect == InitDetect /\ [][NextDetect]_vars

----------------------------------------------------------------------------
(* WriteValue on variables declared with a bounded numeric type.  The case of
   the numeric DataTypes is one for all of them: ConvertToFloat64, scale,
   offset, AddPoint on the *Cache[float64]. *)

\* a numeric variable of declared type dt, without scale and offset
WriteConfig(dt) ==
    [type |-> "float64", PublishCycle |-> Nil, DiffThreshold |-> Nil,
     PctThreshold |-> Nil, ExpireDuration |-> 0, Scale |-> Nil,
     Offset |-> Nil, DataType |-> dt]

\* the values written: within every declared range, and beyond some or all
WrittenValues ==
    {[kind |-> "int", v |-> n] : n \in {-129, -1, 1, 128, 256, 70000}}
    \cup {[kind |-> "float64", v |-> 200], [kind |-> "string", v |-> 7]}

InitWrite == \E dt \in IntegerDataTypes : InitWith(WriteConfig(dt))

NextWrite ==
    \/ \E value \in WrittenValues, t \in ReadTimestamp : WriteValue(value, t)
    \/ Advance

\* a variable of a bounded integer type under WriteValue
SpecWrite == InitWrite /\ [][NextWrite]_vars

----------------------------------------------------------------------------
(* Publish scheduler: when a tick emits *)

\* a step that is a call of GetPushValues which reached the emit condition
\* and returned: the variable has a publish cycle and a cache, gcd # 0
IsTick ==
    /\ op'.name = "GetPushValues"
    /\ ~op'.panicked
    /\ cfg.PublishCycle # Nil
    /\ HasCache

\* C1, as stated: for a variable with a publish cycle and a cache,
\* GetPushValues(gcdTick, tickIndex) returns a non-empty sequence if and only
\* if (publishCycle <= 0 and changed) or (times # 0 and tickIndex mod times = 0),
\* times = publishCycle div gcdTick, for every cache content.
C1_EmitIffCondition_EveryCache ==
    [][IsTick =>
          LET publishCycle == cfg.PublishCycle[1]
              times        == GoDiv(publishCycle, op'.gcd)
          IN  (op'.ret # <<>>) <=>
                 \/ publishCycle <= 0 /\ ChangedWithLatestPushValue
                 \/ times # 0 /\ GoRem(op'.i, times) = 0]_vars

\* C1, amended: the equivalence holds for every non-empty cache; on an empty
\* cache GetPushValues returns the empty sequence whatever the condition says.
C1_EmitIffCondition_NonEmptyCache ==
    [][IsTick =>
          LET publishCycle == cfg.PublishCycle[1]
              times        == GoDiv(publishCycle, op'.gcd)
          IN  IF Points = <<>>
              THEN op'.ret = <<>>
              ELSE (op'.ret # <<>>) <=>
                      \/ publishCycle <= 0 /\ ChangedWithLatestPushValue
                      \/ times # 0 /\ GoRem(op'.i, times) = 0]_vars

\* C1 witness: a tick that is on no cycle boundary (publishCycle = 0, so
\* times = 0) has emitted because the value changed
C1_Witness ==
    /\ op.name = "GetPushValues"
    /\ op.ret # <<>>
    /\ cfg.PublishCycle = Some(0)
    /\ Len(Points) >= 2

\* C2, the claim's "never" half: for a variable with publishCycle <= 0 and a
\* non-empty cache, GetPushValues does not emit on a tick where
\* ChangedSinceLastPublish is false.
C2_NoEmitWithoutChange ==
    [][(IsTick /\ cfg.PublishCycle[1] <= 0 /\ ~ChangedWithLatestPushValue)
          => op'.ret = <<>>]_vars

\* C3: for a positive publishCycle that is a multiple of gcdTick and a
\* non-empty cache, GetPushValues emits at tick i exactly when
\* i mod (publishCycle / gcdTick) = 0, whether or not the value changed.
C3_PositiveCycleEmitsOnBoundary ==
    [][(/\ IsTick
        /\ cfg.PublishCycle[1] > 0
        /\ cfg.PublishCycle[1] % op'.gcd = 0
        /\ Points # <<>>) =>
          ((op'.ret # <<>>) <=>
              (op'.i % (cfg.PublishCycle[1] \div op'.gcd) = 0))]_vars

\* C3 witness: publishCycle = 4, gcd = 2: tick 2 has emitted although the
\* value is the one published last
C3_Witness ==
    /\ op.name = "GetPushValues"
    /\ op.gcd = 2
    /\ op.i = 2
    /\ op.ret # <<>>
    /\ cfg.PublishCycle = Some(4)
    /\ Len(Points) >= 2
    /\ Points[Len(Points)].Value = Points[Len(Points) - 1].Value

----------------------------------------------------------------------------
(* Publish scheduler: what a tick emits, and the latest-published marker *)

AsPushValue(p) == [Value |-> p.Value, Timestamp |-> p.Timestamp]

\* C4, as stated: for each of the four canonical types, when GetPushValues
\* emits, the value changed since the last publish, the cache holds at least
\* two points and the second-newest point's timestamp differs from the
\* recorded marker's, the result is [second-newest, newest]; in every other
\* emitting case it is [newest].
C4_BackFillForEveryType ==
    [][(IsTick /\ op'.ret # <<>>) =>
          LET n == Len(Points)
          IN  IF /\ ChangedWithLatestPushValue
                 /\ n >= 2
                 /\ LatestPush # Nil
                 /\ Points[n - 1].Timestamp # LatestPush[1].Timestamp
              THEN op'.ret = <<AsPushValue(Points[n - 1]), AsPushValue(Points[n])>>
              ELSE op'.ret = <<AsPushValue(Points[n])>>]_vars

\* C5: GetPushValues leaves the marker alone when it returns the empty
\* sequence; when it returns a non-empty one the marker afterwards is the
\* cache's newest point, which is also the last element returned.
C5_MarkerFollowsEmission ==
    [][op'.name = "GetPushValues" =>
          IF op'.ret = <<>>
          THEN LatestPush' = LatestPush
          ELSE /\ Points # <<>>
               /\ LatestPush' = Some(Points[Len(Points)])
               /\ op'.ret[Len(op'.ret)] = AsPushValue(LatestPush'[1])]_vars

\* C5 witness: an emission with a back-fill push has set the marker to the
\* newest point, replacing an older one
C5_Witness ==
    /\ op.name = "GetPushValues"
    /\ Len(op.ret) = 2
    /\ LatestPush = Some(Points[Len(Points)])

\* C6: the marker goes from absent to present only by a GetPushValues call
\* that returns a non-empty sequence, the first such call always sets it, and
\* no call ever makes a present marker absent again.
C6_PublishedOnceForever ==
    [][/\ (LatestPush # Nil => LatestPush' # Nil)
       /\ (LatestPush = Nil /\ LatestPush' # Nil) =>
             (op'.name = "GetPushValues" /\ op'.ret # <<>>)
       /\ (LatestPush = Nil /\ op'.name = "GetPushValues" /\ op'.ret # <<>>) =>
             LatestPush' # Nil]_vars

\* C6 witness: a variable is Published, an AddPoint has since evicted the
\* published point from the cache, and a later tick pushed nothing
C6_Witness ==
    /\ LatestPush # Nil
    /\ \A k \in 1 .. Len(Points) : Points[k].Timestamp # LatestPush[1].Timestamp
    /\ op.name = "GetPushValues"
    /\ op.ret = <<>>

\* C7, as stated, for a float64 variable with a positive publish cycle whose
\* last published point is still in the cache: the points stored after it are
\* the points added since that emission, and each of them whose value differs
\* from its predecessor's is among the pushes of the next emission.
C7_NoTransitionLost ==
    [][(/\ IsTick
        /\ op'.ret # <<>>
        /\ cfg.type = "float64"
        /\ cfg.PublishCycle[1] > 0
        /\ LatestPush # Nil) =>
          \A k \in 1 .. Len(Points) :
             Points[k].Timestamp = LatestPush[1].Timestamp =>
                \A j \in (k + 1) .. Len(Points) :
                   Points[j].Value # Points[j - 1].Value =>
                      \E m \in 1 .. Len(op'.ret) :
                         op'.ret[m] = AsPushValue(Points[j])]_vars

----------------------------------------------------------------------------
(* Time-series cache: AddPoint *)

\* C8, as stated: AddPoint(v, t) with t the timestamp of a stored point
\* replaces that point's value by v, keeps the point at its position, and
\* does not increase Len().
C8_OverwriteKeepsPosition ==
    [][op'.name = "AddPoint" =>
          \A k \in 1 .. Len(Points) :
             Points[k].Timestamp = op'.timestamp =>
                /\ CacheLen(Points') <= CacheLen(Points)
                /\ k <= Len(Points')
                /\ Points'[k] = Point(op'.value[1], op'.timestamp)]_vars

\* C8, amended: AddPoint(v, t) with t the timestamp of a stored point replaces
\* that point's value by v where it stands and appends nothing; the eviction
\* that follows keeps exactly the points within the expiry, in their order,
\* so Len() does not increase, the point moves down by the number of expired
\* points before it, and it is itself removed when it is expired.
C8_OverwriteThenEvict ==
    [][op'.name = "AddPoint" =>
          \A k \in 1 .. Len(Points) :
             Points[k].Timestamp = op'.timestamp =>
                LET replaced == [Points EXCEPT ![k].Value = op'.value[1]]
                    live(p)  == \/ cfg.ExpireDuration <= 0
                                \/ now - p.Timestamp[1] <= cfg.ExpireDuration
                IN  /\ Points' = SelectSeq(replaced, live)
                    /\ CacheLen(Points') <= CacheLen(Points)]_vars

\* C8 witness: an AddPoint at a stored timestamp has overwritten a point that
\* is not the newest, and the eviction then removed an older one
C8_Witness ==
    /\ op.name = "AddPoint"
    /\ op.branch = "overwrite"
    /\ op.evicted > 0
    /\ Len(Points) >= 2
    /\ Points[1] = Point(op.value[1], op.timestamp)

\* C9: after any sequence of AddPoint calls, no two stored points have the
\* same timestamp.
C9_NoDuplicateTimestamps ==
    \A j, k \in 1 .. Len(Points) :
       j # k => Points[j].Timestamp # Points[k].Timestamp

\* C9 witness: an AddPoint at the timestamp of a stored point found it among
\* several points, out of chronological order
C9_Witness ==
    /\ op.name = "AddPoint"
    /\ op.branch = "overwrite"
    /\ Len(Points) >= 3
    /\ Points[1].Timestamp[1] > Points[2].Timestamp[1]

\* C10, as stated: for every expiry >= 0, 0 included, right after an AddPoint
\* the cache holds no point with now - timestamp > expiry.
C10_NoExpiredPoint_NonNegativeExpiry ==
    (op.name = "AddPoint" /\ cfg.ExpireDuration >= 0) =>
       \A k \in 1 .. Len(Points) :
          now - Points[k].Timestamp[1] <= cfg.ExpireDuration

\* C10, amended: for every expiry > 0, right after an AddPoint the cache
\* holds no point with now - timestamp > expiry (an expiry of 0 evicts nothing).
C10_NoExpiredPoint_PositiveExpiry ==
    (op.name = "AddPoint" /\ cfg.ExpireDuration > 0) =>
       \A k \in 1 .. Len(Points) :
          now - Points[k].Timestamp[1] <= cfg.ExpireDuration

\* C10 witness: an AddPoint on a cache with a positive expiry has evicted
\* points and kept others
C10_Witness ==
    /\ op.name = "AddPoint"
    /\ cfg.ExpireDuration > 0
    /\ op.evicted > 0
    /\ Points # <<>>

\* C11: on a cache whose expiry is <= 0, an AddPoint call removes no stored
\* point: Len() does not decrease, and every stored point keeps its position
\* and timestamp, and its value unless the call overwrites it, however old
\* the point is.
C11_NoEvictionWithoutExpiry ==
    [][(op'.name = "AddPoint" /\ cfg.ExpireDuration <= 0) =>
          /\ CacheLen(Points') >= CacheLen(Points)
          /\ \A k \in 1 .. Len(Points) :
                /\ Points'[k].Timestamp = Points[k].Timestamp
                /\ \/ Points'[k].Value = Points[k].Value
                   \/ /\ op'.branch = "overwrite"
                      /\ Points[k].Timestamp = op'.timestamp
                      /\ Points'[k].Value = op'.value[1]]_vars

\* C11 witness: an AddPoint on a cache with expiry 0, at a clock reading
\* later than the timestamps of two stored points, has kept them
C11_Witness ==
    /\ op.name = "AddPoint"
    /\ cfg.ExpireDuration = 0
    /\ Len(Points) >= 3
    /\ now - Points[1].Timestamp[1] >= 2
    /\ now - Points[2].Timestamp[1] >= 1

----------------------------------------------------------------------------
(* Time-series cache: readers and the writer *)

\* C12: with one writer in AddPoint and concurrent readers in the cache's
\* read methods, no read observes a slice in which AddPoint has inserted its
\* point and has not yet evicted the expired ones: what a read observes is
\* the slice as the call found it or as the call leaves it.
C12_ReadersSeeWholeAddPoint ==
    [][\A r \in ReaderIds :
          (readers[r].pc = "read" /\ readers'[r].pc = "unlock") =>
             /\ readers'[r].observed = Points
             /\ writer.pc = "evict" =>
                   \/ Points = writer.before
                   \/ Points = cleanExpiredPointsUnsafe(Points, cfg.ExpireDuration,
                                                        now)]_vars

\* C12 witness: a reader has read a cache holding an expired point while an
\* AddPoint, which will evict it, waits for the lock both readers hold
C12_Witness ==
    /\ readers[1].pc = "unlock"
    /\ readers[1].observed = Points
    /\ mu.readers = 2
    /\ writer.pc = "lock"
    /\ cleanExpiredPointsUnsafe(Points, cfg.ExpireDuration, now) # Points

----------------------------------------------------------------------------
(* Change detector *)

\* C13: ChangedSinceLastPublish returns false for a variable without a cache,
\* and true for a variable with a cache for which nothing has been published,
\* whatever the cache holds (an empty cache included) and whatever thresholds
\* are configured.
C13_NoCacheFalse_NoBaselineTrue ==
    op.name = "ChangedWithLatestPushValue" =>
       /\ ~HasCache => op.ret = <<FALSE>>
       /\ (HasCache /\ LatestPush = Nil) => op.ret = <<TRUE>>

\* C13 witness: the call has returned true on a numeric variable with an
\* absolute threshold, an empty cache and nothing published
C13_Witness ==
    /\ op.name = "ChangedWithLatestPushValue"
    /\ op.ret = <<TRUE>>
    /\ cfg.type = "float64"
    /\ cfg.DiffThreshold = Some(2)
    /\ Points = <<>>
    /\ LatestPush = Nil

\* C14: for a numeric variable with a published baseline, when DiffThreshold
\* is set ChangedSinceLastPublish returns true exactly when
\* |newest - published| >= DiffThreshold, whether or not PctThreshold is set
\* too; with neither threshold set it returns true exactly when the two
\* values are unequal.
C14_AbsoluteThresholdDecides ==
    (/\ op.name = "ChangedWithLatestPushValue"
     /\ cfg.type = "float64"
     /\ LatestPush # Nil
     /\ Points # <<>>) =>
       LET new  == Current(Points)
           last == LatestPush[1].Value
       IN  /\ cfg.DiffThreshold # Nil =>
                 op.ret = <<Abs(new - last) >= cfg.DiffThreshold[1]>>
           /\ (cfg.DiffThreshold = Nil /\ cfg.PctThreshold = Nil) =>
                 op.ret = <<new # last>>

\* C14 witness: with DiffThreshold 2 and PctThreshold 60, the call has
\* returned false for 1 -> 2, a change of 1 and of 100 percent
C14_Witness ==
    /\ op.name = "ChangedWithLatestPushValue"
    /\ op.ret = <<FALSE>>
    /\ cfg.DiffThreshold = Some(2)
    /\ cfg.PctThreshold = Some(60)
    /\ LatestPush # Nil
    /\ LatestPush[1].Value = 1
    /\ Points # <<>>
    /\ Current(Points) = 2

\* C15: for a numeric variable with a published baseline and only
\* PctThreshold set, ChangedSinceLastPublish returns true exactly when
\* |pct| >= PctThreshold, pct = ((new - last) / last) * 100 for last # 0,
\* pct = 0 for last = 0 = new, and pct beyond every threshold for
\* last = 0 # new.
C15_PercentageThreshold ==
    (/\ op.name = "ChangedWithLatestPushValue"
     /\ cfg.type = "float64"
     /\ LatestPush # Nil
     /\ Points # <<>>
     /\ cfg.DiffThreshold = Nil
     /\ cfg.PctThreshold # Nil) =>
       LET new  == Current(Points)
           last == LatestPush[1].Value
       IN  op.ret =
              <<IF last # 0
                THEN Abs(GoDiv((new - last) * 100, last)) >= cfg.PctThreshold[1]
                ELSE IF new = 0 THEN 0 >= cfg.PctThreshold[1] ELSE TRUE>>

\* C15 witness: with PctThreshold 60 only, the call has returned true for a
\* change from a published 0 to 1
C15_Witness ==
    /\ op.name = "ChangedWithLatestPushValue"
    /\ op.ret = <<TRUE>>
    /\ cfg.DiffThreshold = Nil
    /\ cfg.PctThreshold = Some(60)
    /\ LatestPush # Nil
    /\ LatestPush[1].Value = 0
    /\ Points # <<>>
    /\ Current(Points) = 1

\* C16, as stated: for a numeric variable with both thresholds configured,
\* the changed flag Read returns is the absolute test's result
\* (|current - previous| > DiffThreshold), the percentage threshold not
\* being honored.
C16_ReadAbsolutePriority ==
    (/\ op.name = "Read"
     /\ cfg.type = "float64"
     /\ cfg.DiffThreshold # Nil
     /\ cfg.PctThreshold # Nil) =>
       op.ret[2] = DiffExceeds(Points, cfg.DiffThreshold[1])[1]

----------------------------------------------------------------------------
(* The latest-published marker and ingestion *)

\* C17: AddPoint, WriteValue, Read and ChangedSinceLastPublish leave the
\* latest-published marker as it is, value and timestamp; only GetPushValues
\* changes it.
C17_MarkerUntouchedByIngestion ==
    [][/\ op'.name \in {"AddPoint", "WriteValue", "Read",
                        "ChangedWithLatestPushValue"} => LatestPush' = LatestPush
       /\ LatestPush' # LatestPush => op'.name = "GetPushValues"]_vars

\* C17 witness: an AddPoint has overwritten the value of the point stored at
\* the marker's timestamp, and the marker still holds the published value
C17_Witness ==
    /\ op.name = "AddPoint"
    /\ op.branch = "overwrite"
    /\ LatestPush # Nil
    /\ op.timestamp = LatestPush[1].Timestamp
    /\ op.value[1] # LatestPush[1].Value

----------------------------------------------------------------------------
(* Failures *)

\* C18, as stated: every call returns normally; GetPushValues(gcdTick,
\* tickIndex) on a variable with a publish cycle and a cache returns a
\* sequence for every gcdTick, 0 included.
C18_NoCallPanics == ~op.panicked

----------------------------------------------------------------------------
(* Windowed analytics: the window argument *)

\* the last call was a windowed method given a window that does not parse
UnparsableWindowCall ==
    /\ op.name \in {"MA", "StdDev", "Count", "RC", "FC", "PctChangeSince",
                    "DiffSince"}
    /\ ParseDuration(op.window) = Nil

\* what the five methods built on getPointsInWindow return when they consider
\* all stored points (MA and StdDev on a float64 cache, RC and FC on a bool one)
FallsBackToAllPoints ==
    /\ (op.name = "MA" /\ cfg.type = "float64") =>
          op.ret = IF Points = <<>> THEN <<Zero, NoError>>
                                    ELSE <<MeanOf(Points), NoError>>
    /\ (op.name = "StdDev" /\ cfg.type = "float64") =>
          op.ret = IF Len(Points) <= 1 THEN <<Zero, NoError>>
                                       ELSE <<StdDevOf(Points), NoError>>
    /\ op.name = "Count" =>
          op.ret = IF Len(Points) <= 1 THEN Len(Points) ELSE RunsOf(Points)
    /\ (op.name = "RC" /\ cfg.type = "bool") =>
          op.ret = IF Len(Points) < 2 THEN <<0, NoError>>
                                      ELSE <<PairsOf(Points, FALSE, TRUE), NoError>>
    /\ (op.name = "FC" /\ cfg.type = "bool") =>
          op.ret = IF Len(Points) < 2 THEN <<0, NoError>>
                                      ELSE <<PairsOf(Points, TRUE, FALSE), NoError>>

\* C19, as stated: each of MA, StdDev, Count, RC, FC, PctChangeSince and
\* DiffSince, given a window that does not parse as a duration, considers all
\* stored points and does not fail because of the window.
C19_EveryWindowedMethodFallsBack ==
    UnparsableWindowCall =>
       /\ FallsBackToAllPoints
       /\ op.name \in {"PctChangeSince", "DiffSince"} =>
             op.ret[2] # "invalid time window format"

\* C19, amended: MA, StdDev, Count, RC and FC, given a window that does not
\* parse, consider all stored points; PctChangeSince and DiffSince, given
\* such a window, fail with the invalid-window error on every non-empty
\* float64 cache (and return 0 without error on an empty one).
C19_WindowFallbackExceptSince ==
    UnparsableWindowCall =>
       /\ FallsBackToAllPoints
       /\ (op.name \in {"PctChangeSince", "DiffSince"} /\ cfg.type = "float64") =>
             op.ret[2] = IF Points = <<>> THEN NoError
                                          ELSE "invalid time window format"

\* C19 witness: Count given "abc" has counted the runs of all stored points,
\* of which a window of one second would have left out some
C19_Witness ==
    /\ op.name = "Count"
    /\ op.window = "abc"
    /\ Len(Points) >= 3
    /\ op.ret = RunsOf(Points)
    /\ op.ret >= 2
    /\ Len(getPointsInWindow(Points, "1s", now)) < Len(Points)

----------------------------------------------------------------------------
(* Windowed analytics: PctChangeSince and DiffSince *)

\* the last call was PctChangeSince or DiffSince on a float64 cache with a
\* window that parses
SinceCall ==
    /\ op.name \in {"PctChangeSince", "DiffSince"}
    /\ cfg.type = "float64"
    /\ ParseDuration(op.window) # Nil

\* the stored points strictly older than now - window
OlderThanWindow ==
    {k \in 1 .. Len(Points) :
        Points[k].Timestamp[1] < now - ParseDuration(op.window)[1]}

\* the call took as baseline the last stored of the points older than the
\* window, or failed for want of one
SinceFromBaseline ==
    IF OlderThanWindow = {}
    THEN op.ret[2] = "no data point found before the specified time window"
    ELSE LET k    == CHOOSE i \in OlderThanWindow : \A j \in OlderThanWindow : j <= i
             base == Points[k].Value
             new  == Points[Len(Points)].Value
         IN  IF op.name = "DiffSince"
             THEN op.ret = <<new - base, NoError>>
             ELSE op.ret =
                     IF base # 0 THEN <<Fraction((new - base) * 100, base), NoError>>
                     ELSE IF new = 0 THEN <<Zero, NoError>>
                     ELSE <<Zero, "cannot calculate percentage change from zero">>

\* C20, as stated: PctChangeSince and DiffSince take as baseline the most
\* recent stored point strictly older than now - window, and fail with the
\* no-baseline error whenever there is none, the empty cache included.
C20_SinceBaseline_EveryCache == SinceCall => SinceFromBaseline

\* C20, amended: on a non-empty float64 cache PctChangeSince and DiffSince
\* take as baseline the last stored of the points strictly older than
\* now - window and fail with the no-baseline error when there is none; on an
\* empty cache they return 0 without error.
C20_SinceBaseline_NonEmptyCache ==
    SinceCall =>
       IF Points = <<>>
       THEN op.ret[2] = NoError
       ELSE SinceFromBaseline

\* C20 witness: DiffSince("0s") has returned newest - baseline = 1 where two
\* stored points are older than the window and a point stamped exactly at
\* now - window is stored too
C20_Witness ==
    /\ op.name = "DiffSince"
    /\ op.window = "0s"
    /\ op.ret = <<1, NoError>>
    /\ Cardinality(OlderThanWindow) >= 2
    /\ \E k \in 1 .. Len(Points) : Points[k].Timestamp[1] = now

----------------------------------------------------------------------------
(* The read methods without a window *)

\* C21, as stated: on a bool cache Rising() and Falling() never return an
\* error; with fewer than two points they return false, with two or more
\* Rising() is true iff the newest value is true and the one before it false,
\* Falling() iff the newest is false and the one before it true; on a cache of
\* another type with two or more points both return the type error.
C21_RisingFallingOnBool ==
    /\ op.name = "Rising" =>
          IF cfg.type = "bool"
          THEN op.ret = <<Len(Points) >= 2 /\ Current(Points) /\ ~Previous(Points),
                          NoError>>
          ELSE Len(Points) >= 2 => op.ret[2] = "value is not a bool type"
    /\ op.name = "Falling" =>
          IF cfg.type = "bool"
          THEN op.ret = <<Len(Points) >= 2 /\ ~Current(Points) /\ Previous(Points),
                          NoError>>
          ELSE Len(Points) >= 2 => op.ret[2] = "value is not a bool type"

\* C23: PctChange() on a float64 cache returns 0 without error with fewer
\* than two points; with previous and current the two newest values it returns
\* 0 without error when both are 0, the division-by-zero error when previous
\* is 0 and current is not, and otherwise, without error, the value x with
\* x * previous = (current - previous) * 100.
C23_PctChangeOnFloat ==
    op.name = "PctChange" /\ cfg.type = "float64" =>
        IF Len(Points) < 2
        THEN op.ret = <<0, NoError>>
        ELSE LET previous == Points[Len(Points) - 1].Value
                 current  == Points[Len(Points)].Value
             IN  IF previous = 0
                 THEN IF current = 0
                      THEN op.ret = <<0, NoError>>
                      ELSE op.ret[2] = "cannot calculate percentage change from zero"
                 ELSE /\ op.ret[2] = NoError
                      /\ op.ret[1] * previous = (current - previous) * 100

\* C23, reached: PctChange has failed on (previous, current) = (0, 2)
C23_Witness ==
    /\ op.name = "PctChange"
    /\ cfg.type = "float64"
    /\ Len(Points) >= 2
    /\ Points[Len(Points) - 1].Value = 0
    /\ Points[Len(Points)].Value = 2
    /\ op.ret[2] = "cannot calculate percentage change from zero"

\* the two values differ under the equality rule of the cache's type: byte
\* sequences by length and by element, every other type by value
ValuesDiffer(a, b) ==
    IF cfg.type = "bytes"
    THEN \/ Len(a) # Len(b)
         \/ \E k \in 1 .. Len(a) : a[k] # b[k]
    ELSE a # b

\* C27: for each of the four types, Changed() is false with fewer than two
\* points, and with two or more it is true iff the values of the two newest
\* points differ under the type's equality rule.
C27_ChangedIffNewestTwoDiffer ==
    op.name = "Changed" =>
        op.ret = IF Len(Points) < 2
                 THEN FALSE
                 ELSE ValuesDiffer(Points[Len(Points)].Value,
                                   Points[Len(Points) - 1].Value)

\* C27, reached: Changed has returned true on a bytes cache whose two newest
\* values have the same length and different content
C27_Witness ==
    /\ op.name = "Changed"
    /\ cfg.type = "bytes"
    /\ Len(Points) >= 2
    /\ Len(Points[Len(Points)].Value) = Len(Points[Len(Points) - 1].Value)
    /\ op.ret = TRUE

\* C28: on a bytes cache whose newest value has n bytes, Bit(index) returns,
\* without error, bit (index mod 8) of byte (index div 8) for 0 <= index < 8n,
\* and the index-out-of-range error for index < 0 and for index >= 8n.
C28_BitOfNewestValue ==
    op.name = "Bit" /\ cfg.type = "bytes" /\ Len(Points) > 0 =>
        LET val   == Points[Len(Points)].Value
            index == op.arg[1]
        IN  IF 0 <= index /\ index < 8 * Len(val)
            THEN op.ret = <<(val[(index \div 8) + 1] \div 2 ^ (index % 8)) % 2 = 1,
                            NoError>>
            ELSE op.ret = <<FALSE, "index out of range">>

\* C28, reached: Bit(12) has returned true on the value [0x00, 0x10]
C28_Witness ==
    /\ op.name = "Bit"
    /\ cfg.type = "bytes"
    /\ Len(Points) > 0
    /\ Points[Len(Points)].Value = <<0, 16>>
    /\ op.arg = Some(12)
    /\ op.ret = <<TRUE, NoError>>

\* C29: Value(), Latest(), Timestamp() and Point() describe the last point of
\* the sequence: on an empty cache Value() and Latest() return the zero value
\* of T and Timestamp() and Point() return nil; on a non-empty cache Value()
\* and Latest() return the last point's value, Timestamp() its timestamp and
\* Point() a pointer to a point equal to it; and what a returned Point()
\* points to is still the point it was taken from after a later AddPoint.
C29_NewestPointReads ==
    [][/\ op'.name \in {"Value", "Latest"} =>
             op'.ret = IF Points' = <<>> THEN ZeroValue(cfg.type)
                                         ELSE Points'[Len(Points')].Value
       /\ op'.name = "Timestamp" =>
             op'.ret = IF Points' = <<>> THEN Nil
                                         ELSE Points'[Len(Points')].Timestamp
       /\ op'.name = "Point" =>
             IF Points' = <<>>
             THEN op'.ret = Nil
             ELSE /\ op'.ret # Nil
                  /\ Deref(op'.ret[1], Points') = Points'[Len(Points')]
       /\ op.name = "Point" /\ op.ret # Nil /\ op'.name = "AddPoint" =>
             Deref(op.ret[1], Points') = Points[Len(Points)]
      ]_vars

\* C29, reached: Point() has returned the newest point, which is stamped with
\* the present instant, so that the next AddPoint overwrites it in place
C29_Witness ==
    /\ op.name = "Point"
    /\ op.ret # Nil
    /\ Points # <<>>
    /\ Points[Len(Points)].Timestamp = Some(now)

----------------------------------------------------------------------------
(* Windowed analytics: MA and StdDev *)

\* the points the last windowed call had in its window
PointsInWindow == getPointsInWindow(Points, op.window, now)

\* MA and StdDev on a float64 cache: no error, 0 on an empty window, 0 for
\* StdDev on a single point
MAStdDevOnFloat ==
    op.name \in {"MA", "StdDev"} /\ cfg.type = "float64" =>
        /\ op.ret[2] = NoError
        /\ PointsInWindow = <<>> => op.ret[1] = Zero
        /\ op.name = "StdDev" /\ Len(PointsInWindow) = 1 => op.ret[1] = Zero

\* C22, as stated: MA(window) and StdDev(window) return the type error on
\* every call on a cache that is not float64 and has at least one point in the
\* window, exactly one included; on a float64 cache they never return an
\* error, an empty window giving 0 and a single-point StdDev giving 0.
C22_TypeErrorWithAnyPoint ==
    /\ MAStdDevOnFloat
    /\ op.name \in {"MA", "StdDev"} /\ cfg.type # "float64"
          /\ Len(PointsInWindow) >= 1 =>
             op.ret[2] = "value is not a float64 type"

\* C22, amended: on a cache that is not float64, MA returns the type error
\* with at least one point in the window and StdDev with at least two; with
\* exactly one point in the window StdDev returns 0 without error; on a
\* float64 cache neither returns an error, an empty window giving 0 and a
\* single-point StdDev giving 0.
C22_TypeErrorMAOnePointStdDevTwo ==
    /\ MAStdDevOnFloat
    /\ op.name = "MA" /\ cfg.type # "float64" /\ Len(PointsInWindow) >= 1 =>
          op.ret[2] = "value is not a float64 type"
    /\ op.name = "StdDev" /\ cfg.type # "float64" =>
          IF Len(PointsInWindow) >= 2
          THEN op.ret[2] = "value is not a float64 type"
          ELSE op.ret = <<Zero, NoError>>

\* C22, reached: StdDev has returned 0 without error on a bool cache with
\* exactly one point in the window
C22_Witness ==
    /\ op.name = "StdDev"
    /\ cfg.type = "bool"
    /\ Len(PointsInWindow) = 1
    /\ op.ret = <<Zero, NoError>>

----------------------------------------------------------------------------
(* Windowed analytics: the points in the window *)

\* the indices of the points stamped strictly after the cutoff
AfterCutoff(points, cutoff) ==
    {k \in 1 .. Len(points) : points[k].Timestamp[1] > cutoff}

\* seq is the points at the indices S, in the order of the indices
IsSelection(seq, points, S) ==
    /\ Len(seq) = Cardinality(S)
    /\ \A k \in S : seq[Cardinality({j \in S : j <= k})] = points[k]

\* C24: for a window string that parses as the duration d, getPointsInWindow
\* returns exactly the stored points whose timestamp is strictly after
\* now - d, in their stored order, a point stamped exactly now - d excluded,
\* and leaves the cache as it was.
C24_PointsStrictlyAfterCutoff ==
    [][op'.name = "getPointsInWindow" /\ ParseDuration(op'.window) # Nil =>
          /\ Points' = Points
          /\ IsSelection(op'.ret, Points,
                         AfterCutoff(Points, now - ParseDuration(op'.window)[1]))
      ]_vars

\* C24, reached: getPointsInWindow("1s") has returned a point and left out
\* the point stamped exactly now - 1
C24_Witness ==
    /\ op.name = "getPointsInWindow"
    /\ op.window = "1s"
    /\ op.ret # <<>>
    /\ \E k \in 1 .. Len(Points) :
          /\ Points[k].Timestamp = Some(now - 1)
          /\ \A i \in 1 .. Len(op.ret) : op.ret[i] # Points[k]

----------------------------------------------------------------------------
(* Windowed analytics: Count, RC and FC *)

\* the first positions of the maximal runs of equal adjacent values of pts
RunStarts(pts) ==
    {k \in 1 .. Len(pts) : k = 1 \/ ValuesDiffer(pts[k].Value, pts[k - 1].Value)}

\* C25: Count(window) is the number of maximal runs of equal adjacent values
\* among the points in the window: 0 on an empty window, else 1 plus the
\* number of positions whose value differs from its predecessor's; it is not
\* the number of distinct values.
C25_CountIsNumberOfRuns ==
    op.name = "Count" => op.ret = Cardinality(RunStarts(PointsInWindow))

\* C25, reached: Count has returned 3 on a window holding two distinct values
C25_Witness ==
    /\ op.name = "Count"
    /\ op.ret = 3
    /\ Cardinality({PointsInWindow[k].Value : k \in 1 .. Len(PointsInWindow)}) = 2

\* C26: on a bool cache RC(window) is the number of adjacent pairs
\* (false, true) and FC(window) the number of adjacent pairs (true, false)
\* among the points in the window, in stored order, both without error.
C26_RisingAndFallingCounts ==
    /\ op.name = "RC" /\ cfg.type = "bool" =>
          op.ret = <<Cardinality({k \in 1 .. Len(PointsInWindow) - 1 :
                                     /\ ~PointsInWindow[k].Value
                                     /\ PointsInWindow[k + 1].Value}),
                     NoError>>
    /\ op.name = "FC" /\ cfg.type = "bool" =>
          op.ret = <<Cardinality({k \in 1 .. Len(PointsInWindow) - 1 :
                                     /\ PointsInWindow[k].Value
                                     /\ ~PointsInWindow[k + 1].Value}),
                     NoError>>

\* C26, reached: RC has returned 1 on the window [false, true, false], on
\* which FC returns 1 as well
C26_Witness ==
    /\ cfg.type = "bool"
    /\ op.name = "RC"
    /\ op.ret = <<1, NoError>>
    /\ Len(PointsInWindow) = 3
    /\ ~PointsInWindow[1].Value
    /\ PointsInWindow[2].Value
    /\ ~PointsInWindow[3].Value

----------------------------------------------------------------------------
(* Conversion of values *)

\* C30, as stated: ConvertFromAny never wraps or clamps: for a bounded
\* integer target and a source of any numeric type, a value outside the
\* target's range is refused with an error, and a value inside the range
\* converts to the numerically equal value of the target type.
C30_ConvertNeverWraps ==
    (/\ op.name = "ConvertFromAny"
     /\ cfg.DataType \in IntegerDataTypes
     /\ op.arg[1].kind \in NumericKinds) =>
        LET target == GoKind(cfg.DataType)
            v      == op.arg[1].v
        IN  IF v < MinOf(target) \/ v > MaxOf(target)
            THEN op.ret[1] = Nil /\ op.ret[2] # NoError
            ELSE op.ret = <<Some([kind |-> target, v |-> v]), NoError>>

IntegerSource == op.arg[1].kind \in SignedKinds \cup UnsignedKinds

\* the byte sequence read as a little-endian number
RECURSIVE LittleEndian(_)
LittleEndian(bytes) ==
    IF bytes = <<>> THEN 0 ELSE bytes[1] + 256 * LittleEndian(Tail(bytes))

\* Convert then ToBytes on Byte, Word and DWord: for an integer n >= 0 within
\* the range of the target (every number converted here is within DWord's),
\* exactly 1, 2 or 4 bytes, byte k being (n >> 8k) mod 256, whose
\* little-endian reading is n
PackedRoundTrip ==
    (/\ op.name = "ConvertToBytes"
     /\ cfg.DataType \in PackedDataTypes
     /\ IntegerSource
     /\ op.arg[1].v >= 0
     /\ cfg.DataType = "Byte" => op.arg[1].v <= 255
     /\ cfg.DataType = "Word" => op.arg[1].v <= 65535) =>
        /\ op.ret[2] = NoError
        /\ op.ret[1] # Nil
        /\ Len(op.ret[1][1]) = WidthOf(cfg.DataType)
        /\ \A k \in 0 .. WidthOf(cfg.DataType) - 1 :
              op.ret[1][1][k + 1] = (op.arg[1].v \div (2 ^ (8 * k))) % 256
        /\ LittleEndian(op.ret[1][1]) = op.arg[1].v

\* the number lies within the range of the numeric target (no whole number
\* converted here is beyond Float32's)
WithinTarget(dt, n) ==
    dt \in IntegerDataTypes => MinOf(GoKind(dt)) <= n /\ n <= MaxOf(GoKind(dt))

----------------------------------------------------------------------------
(* Model construction *)

\* the configuration violations of a document, each the variable and the
\* message that reports it: bad key shape, key/field mismatch, as_tag and
\* as_event type mismatch, script compile failure
Violations(doc) ==
    UNION {
        (IF ~KeyRegexMatches(doc[k].key)
         THEN {<<doc[k].key, "Invalid variable key">>} ELSE {})
        \cup (IF doc[k].key # doc[k].Key
              THEN {<<doc[k].key, "Variable key mismatch">>} ELSE {})
        \cup (IF doc[k].AsTag /\ doc[k].DataTypeStr # "String"
              THEN {<<doc[k].key, "cannot be used as a tag">>} ELSE {})
        \cup (IF doc[k].AsEvent /\ doc[k].DataTypeStr # "Bool"
              THEN {<<doc[k].key, "cannot be used as an event">>} ELSE {})
        \cup (IF doc[k].Connection = "" /\ doc[k].Script = "+++"
              THEN {<<doc[k].key, "script">>} ELSE {})
        : k \in 1 .. Len(doc)}

\* C33, as stated: for a document with several violations, construction
\* fails with one error that carries a message for every one of them.
C33_EveryViolationReported ==
    (op.name = "DeviceModel.UnmarshalJSON"
        /\ Cardinality(Violations(cfg.Variables)) >= 2) =>
        /\ op.ret.failed
        /\ Violations(cfg.Variables) \subseteq op.ret.messages

----------------------------------------------------------------------------
(* The configuration hash *)

\* Hash() returns the digest of the configuration alone, whatever the cache
\* and the latest-published marker hold and in whatever order the map of
\* connections is iterated
HashOfConfiguration ==
    op.name = "Hash" =>
        \A order \in IterationOrders : op.ret = DeviceModelHash(cfg, order)

\* C34, as stated: for every valid model m, with any combination of optional
\* fields present or absent, an absent cache duration included,
\* Hash(Unmarshal(Marshal(m))) equals Hash(m); the hash depends neither on
\* the iteration order of the maps nor on the cache contents and the
\* latest-published marker.
C34_HashSurvivesRoundTrip ==
    /\ HashOfConfiguration
    /\ op.name = "RoundTripHash" =>
          \A order \in IterationOrders : op.ret = DeviceModelHash(cfg, order)

\* C34, amended: the same for every valid model whose variables have a cache
\* duration set.
C34_HashSurvivesRoundTripWithCacheDuration ==
    /\ HashOfConfiguration
    /\ op.name = "RoundTripHash" /\ cfg.CacheDuration # Nil =>
          \A order \in IterationOrders : op.ret = DeviceModelHash(cfg, order)

\* C34, reached: the hash after a round trip has been taken of a model with
\* a cache duration other than the default, a publish cycle and a threshold,
\* while its cache holds a point and a point has been published
C34_Witness ==
    /\ op.name = "RoundTripHash"
    /\ cfg.CacheDuration = Some(1)
    /\ cfg.PublishCycle # Nil
    /\ cfg.DiffThreshold # Nil
    /\ Points # <<>>
    /\ LatestPush # Nil
    /\ op.ret = DeviceModelHash(cfg, <<"plc1", "plc2">>)

----------------------------------------------------------------------------
(* The scheduler beside ingestion *)

\* the last PushValue a call returned, as a point
LastEmitted == Point(op.ret[Len(op.ret)].Value, op.ret[Len(op.ret)].Timestamp)

\* C35, first part: with AddPoint running beside it, a GetPushValues that
\* returns pushes leaves as LatestPush the point of the last push it returned
C35_MarkerIsEmitted ==
    (/\ op.name = "GetPushValues"
     /\ ~op.panicked
     /\ op.ret # <<>>) => LatestPush = Some(LastEmitted)

\* C35, second part: no interleaving makes GetPushValues index cache.Points
\* out of range
C35_NoIndexOutOfRange == op.name = "GetPushValues" => ~op.panicked

\* C35: with one goroutine in GetPushValues and one in AddPoint on the same
\* variable, whenever GetPushValues returns a non-empty slice the marker it
\* records is the last PushValue it returned, and GetPushValues never
\* indexes the points out of bounds
C35_TickBesideIngestion == C35_MarkerIsEmitted /\ C35_NoIndexOutOfRange

\* a tick returned a back-fill push before the newest value
BackFilled(o) == o.name = "GetPushValues" /\ ~o.panicked /\ Len(o.ret) = 2

\* C36: with serialized ticks and readings stamped in non-decreasing order, a
\* back-fill push has a timestamp strictly later than the timestamp of the
\* marker the call found; a point at or before the marker is not re-emitted
C36_BackFillAfterMarker ==
    [][(BackFilled(op') /\ LatestPush # Nil /\ LatestPush[1].Timestamp # Nil)
          => /\ op'.ret[1].Timestamp # Nil
             /\ op'.ret[1].Timestamp[1] > LatestPush[1].Timestamp[1]]_vars

----------------------------------------------------------------------------
(* Publishing and the change detector *)

\* the call before the step returned pushes
Published == op.name = "GetPushValues" /\ ~op.panicked /\ op.ret # <<>>

\* the step is a call of the detector or of GetPushValues that follows a
\* publishing call at once; it finds no change, and GetPushValues returns
\* nothing when the publish cycle is among cycles
SettledFor(cycles) ==
    /\ op'.name = "ChangedWithLatestPushValue" => op'.ret = <<FALSE>>
    /\ (/\ op'.name = "GetPushValues"
        /\ ~op'.panicked
        /\ cfg.PublishCycle[1] \in cycles) => op'.ret = <<>>

PositiveOrAbsent(threshold) == threshold = Nil \/ threshold[1] > 0

\* C37 as stated: whatever the thresholds (0 included), right after a
\* GetPushValues that returned pushes and with no AddPoint in between, the
\* detector reports no change, and for publishCycle <= 0 the next
\* GetPushValues returns nothing
C37_PublishSettlesDetector ==
    [][Published => SettledFor({c \in -4 .. 4 : c <= 0})]_vars

\* C37, amended: the same for thresholds that are absent or positive, the
\* next GetPushValues returning nothing when publishCycle is 0
C37_PublishSettlesPositiveThresholds ==
    [][(/\ Published
        /\ PositiveOrAbsent(cfg.DiffThreshold)
        /\ cfg.DiffThreshold = Nil => PositiveOrAbsent(cfg.PctThreshold))
          => SettledFor({0})]_vars

\* C37 witness: a variable without thresholds, published on change, has just
\* published a back-fill push and its newest point
C37_Witness ==
    /\ Published
    /\ Len(op.ret) = 2
    /\ cfg.DiffThreshold = Nil
    /\ cfg.PctThreshold = Nil
    /\ cfg.PublishCycle = Some(0)

----------------------------------------------------------------------------
(* The change detector beside ingestion *)

\* the step is the detector returning from its loop
DetectorReturns ==
    /\ TickAt("loop")
    /\ op'.name = "ChangedWithLatestPushValue"
    /\ readers'[Scheduler].pc = "idle"

\* the answers of the detector on the cache as it was at one moment of the
\* call: the newest values the call read
SingleStateAnswers ==
    {<<BytesDiffer(value, LatestPush[1].Value)>> :
        value \in Locals.seen \cup {CacheValue(Points)}}

\* C38, first part: the detector on a bytes variable, running beside AddPoint
\* calls that store byte sequences of differing lengths, never indexes
\* outside a byte sequence
C38_NoByteIndexOutOfRange ==
    op.name = "ChangedWithLatestPushValue" => ~op.panicked

\* C38, second part: what the detector returns is the answer for a single
\* state of the cache, the newest value before or after a concurrent AddPoint
C38_AnswerOfOneState ==
    [][DetectorReturns /\ ~op'.panicked => op'.ret \in SingleStateAnswers]_vars

\* C38: on a bytes variable ChangedSinceLastPublish running beside AddPoint
\* never indexes outside a byte sequence, and every call returns the answer
\* determined by a single state of the cache, never a mixture of two states
C38_DetectorBesideIngestion ==
    [][/\ (op'.name = "ChangedWithLatestPushValue" => ~op'.panicked)
       /\ (DetectorReturns /\ ~op'.panicked => op'.ret \in SingleStateAnswers)]_vars

----------------------------------------------------------------------------
(* Time-series cache: the order of the points *)

\* the points all carry a timestamp and stand in strictly increasing
\* timestamp order
StrictlyIncreasing(points) ==
    /\ \A k \in 1 .. Len(points) : points[k].Timestamp # Nil
    /\ \A k \in 1 .. Len(points) - 1 :
          points[k].Timestamp[1] < points[k + 1].Timestamp[1]

\* the last point carries the greatest timestamp
NewestIsLast(points) ==
    \A k \in 1 .. Len(points) :
        points[k].Timestamp[1] <= points[Len(points)].Timestamp[1]

\* the step is an AddPoint whose timestamp is not earlier than the newest
\* stored point's
AddsInOrder ==
    /\ op'.name = "AddPoint"
    /\ Points # <<>> => op'.timestamp[1] >= Points[Len(Points)].Timestamp[1]

\* C39 as stated: after any AddPoint calls with arbitrary explicit timestamps
\* the stored points are in strictly increasing timestamp order, so the last
\* point is the one with the greatest timestamp
C39_PointsInTimestampOrder == StrictlyIncreasing(Points) /\ NewestIsLast(Points)

\* C39, amended: AddPoint calls whose timestamp is at or after the newest
\* stored point's keep the points in strictly increasing timestamp order,
\* and the last point is the one with the greatest timestamp
C39_OrderedAddsKeepTimestampOrder ==
    [][(StrictlyIncreasing(Points) /\ AddsInOrder)
          => StrictlyIncreasing(Points') /\ NewestIsLast(Points')]_vars

\* C39 witness: AddPoint calls in timestamp order, the last one an overwrite
\* of the newest point, left three points
C39_Witness ==
    /\ op.name = "AddPoint"
    /\ op.branch = "overwrite"
    /\ Len(Points) = 3
    /\ StrictlyIncreasing(Points)
    /\ op.timestamp = Points[3].Timestamp

----------------------------------------------------------------------------
(* WriteValue and the declared type *)

\* x lies within the range of the variable's declared type
WithinDeclaredRange(x) ==
    /\ MinOf(GoKind(cfg.DataType)) <= x
    /\ x <= MaxOf(GoKind(cfg.DataType))

\* C40: on a variable declared with a bounded numeric type, without scale and
\* offset, WriteValue stores no value outside the declared type's range:
\* every value it accepted, and every value in the cache, lies within it
C40_StoredWithinDeclaredRange ==
    /\ (op.name = "WriteValue" /\ op.ret = <<>>)
          => WithinDeclaredRange(op.value[1])
    /\ \A k \in 1 .. Len(Points) : WithinDeclaredRange(Points[k].Value)

====
